---------------------------- MODULE Spec2Model ----------------------------
(***************************************************************************)
(* Attendance check-in / check-out of the GGSORE attendance PWA.           *)
(*                                                                         *)
(* The repository holds several iterations of the same single-page client. *)
(* Three of them carry the attendance logic and are modelled here, one     *)
(* "build" each:                                                           *)
(*                                                                         *)
(*   "db"     src/src/App.tsx 1-1198: submitScan against the Supabase      *)
(*            table gg_attendance (select, then upsert), windows computed  *)
(*            from the session's start and end.                            *)
(*   "local"  src/unnamed/part_003 529-1493: submitScan against React      *)
(*            state (roster, attendance array), stored expiry instants.    *)
(*   "roster" src/src/App.tsx 1199-2900: handleScan and the admin's        *)
(*            manual / undo buttons against the table gg_roster.           *)
(*                                                                         *)
(* Instants are milliseconds since 2026-02-01T00:00:00Z, the value of      *)
(* Date.getTime() less that day's epoch offset.                            *)
(***************************************************************************)
EXTENDS Integers, Sequences, FiniteSets, TLC

VARIABLES
    build,            \* which iteration of the client runs
    lastScanAt,       \* lastScanAtRef.current (src/unnamed/part_004)
    now,              \* Date.now()
    sessions,         \* React state `sessions` (db: the refreshed copy of gg_sessions)
    activeSessionId,  \* React state `activeSessionId`
    authed,           \* React state `authed`
    isAdmin,          \* React state `isAdmin`
    headshotPath,     \* db: React state `headshotPath` ("" until a photo is uploaded)
    gg_attendance,    \* db: the Supabase table gg_attendance, a set of rows
    attendance,       \* React state `attendance` (db: refreshed copy; local: the array)
    calls,            \* db: the submitScan invocations suspended at an await
    roster,           \* React state `roster` (local: the licences of the paid roster;
                      \* roster: the admin's loaded copy of the session's rows)
    gg_roster,        \* roster: the Supabase table gg_roster, a set of rows
    scanBusy,         \* roster: React state `scanBusy`
    rafRef,           \* roster, patch: the pending animation-frame callback, with the
                      \* state its closure holds
    scanning,         \* portal: React state `scanning`
    scanTimer,        \* portal: the pending setTimeout(tick), with the state its
                      \* closure holds
    streamRef,        \* portal: streamRef.current
    qrValue,          \* portal: React state `qrValue`
    qrInView          \* whether a QR code is in front of the camera

\* The state of the camera scanners.
camVars == <<scanBusy, rafRef, scanning, scanTimer, streamRef, qrValue, qrInView>>

vars == <<build, lastScanAt, now, sessions, activeSessionId, authed, isAdmin, headshotPath,
          gg_attendance, attendance, calls, roster, gg_roster, camVars>>

-----------------------------------------------------------------------------
(* Bounds of the model.                                                    *)

MaxSessions == 1

-----------------------------------------------------------------------------
(* JavaScript values.                                                      *)

\* `undefined`, the value of a property that an object does not have.
undefined == "<undefined>"
\* `null`: SQL NULL, a column that was never written.
null == "<null>"

\* A ref that holds no pending callback.
NoCallback == [ pending |-> FALSE ]

\* No camera is running and nothing has been scanned.
CameraOff ==
    /\ scanBusy = FALSE
    /\ rafRef = NoCallback
    /\ scanning = FALSE
    /\ scanTimer = NoCallback
    /\ streamRef = null
    /\ qrValue = ""
    /\ qrInView = FALSE
\* Number.NaN, the getTime() of an invalid Date.
NaN == 0 - 1

\* ToBoolean of a string, undefined or null.
Truthy(v) == v \notin { undefined, null, "" }

MinuteMs == 60 * 1000
HM(h, m) == (h * 60 + m) * MinuteMs

\* The instants at which the clock is observed.
Instants == { HM(8, 25), HM(8, 30), HM(8, 35), HM(8, 45), HM(9, 30), HM(9, 45),
              HM(16, 0), HM(18, 0), HM(18, 1) }

-----------------------------------------------------------------------------
(* Strings that the code inspects character by character (the licence      *)
(* number typed by the user) are sequences of one-character strings.       *)

Lower == <<"a", "b", "s">>
Upper == <<"A", "B", "S">>
Digits == {"0", "1", "2", "3", "4", "5", "6", "7", "8", "9"}
IsSpace(c) == c = " "

\* String.prototype.toUpperCase, one character.
UpperChar(c) ==
    IF \E i \in 1..Len(Lower) : Lower[i] = c
    THEN Upper[CHOOSE i \in 1..Len(Lower) : Lower[i] = c]
    ELSE c

toUpperCase(s) == [i \in 1..Len(s) |-> UpperChar(s[i])]

RECURSIVE TrimStart(_)
TrimStart(s) ==
    IF s # <<>> /\ IsSpace(Head(s)) THEN TrimStart(Tail(s)) ELSE s

RECURSIVE TrimEnd(_)
TrimEnd(s) ==
    IF s # <<>> /\ IsSpace(s[Len(s)]) THEN TrimEnd(SubSeq(s, 1, Len(s) - 1)) ELSE s

\* String.prototype.trim
trim(s) == TrimEnd(TrimStart(s))

\* s.replace(/\s+/g, "")
RemoveSpaces(s) == SelectSeq(s, LAMBDA c : ~IsSpace(c))

normalizeLicense(v) == RemoveSpaces(toUpperCase(trim(v)))

\* /^\d{6,7}-(SA|B|BB)$/i
isValidLicense(v) ==
    \E n \in {6, 7} :
        /\ Len(v) > n
        /\ \A i \in 1..n : v[i] \in Digits
        /\ v[n + 1] = "-"
        /\ toUpperCase(SubSeq(v, n + 2, Len(v))) \in { <<"S", "A">>, <<"B">>, <<"B", "B">> }

\* What the user has in the licence field when a handler starts.
LicenseInputs ==
    { <<"1", "2", "3", "4", "5", "6", "-", "S", "A">>,
      <<" ", "1", "2", "3", "4", "5", "6", "-", "s", "a">>,
      <<"1", "2", "3", "4", "5", "-", "S", "A">> }

-----------------------------------------------------------------------------
(* Dates.  An ISO-8601 string is modelled by the decimal string of its     *)
(* instant; parsing is the inverse lookup and yields NaN for a string that *)
(* is no date.                                                             *)

\* The hours the admin can pick in the datetime-local fields (Central time).
\* A datetime-local value "2026-02-01THH:mm" is <<HH, mm>>; <<>> is the empty field.
StartLocals == { <<3, 0>> }
EndLocals == { <<11, 0>>, <<3, 0>> }

\* tzOffsetMinutes(date, "America/Chicago") on 2026-02-01 (CST, no DST).
tzOffsetMinutes == 0 - 360

\* centralLocalToIso, as an instant: the wall time read as UTC (Date.UTC), corrected
\* by the zone offset.
centralLocalToMs(dtLocal) ==
    LET utcGuess == HM(dtLocal[1], dtLocal[2])
    IN utcGuess - tzOffsetMinutes * 60 * 1000

\* Every instant that some ISO string of the model denotes.
KnownTimes ==
    Instants
    \cup { centralLocalToMs(t) + d : t \in StartLocals \cup EndLocals,
                                     d \in { 0, 30 * MinuteMs, 60 * MinuteMs } }
    \cup { HM(8, 0), HM(9, 25), HM(10, 55), HM(12, 25), HM(12, 35) }

\* Date.prototype.toISOString
toISOString(ms) == ToString(ms)

IsoStrings == { toISOString(t) : t \in KnownTimes }
IsoTable == [iso \in IsoStrings |-> CHOOSE t \in KnownTimes : toISOString(t) = iso]

\* new Date(iso).getTime()
getTime(iso) == IF iso \in IsoStrings THEN IsoTable[iso] ELSE NaN

isoNow == toISOString(now)

\* isExpired with the instant of expiry itself counted as expired.
isExpiredAtOrAfter(expiresAt) ==
    LET t == getTime(expiresAt) IN t # NaN /\ now >= t

\* Date.now() > new Date(expiresAt).getTime(); any comparison with NaN is false.
isExpired(expiresAt) ==
    LET t == getTime(expiresAt) IN t # NaN /\ now > t

-----------------------------------------------------------------------------
(* JSON.  A text is well formed or not; a well-formed text is the sequence *)
(* of its members <<key, value>> (an empty sequence for `null`, `{}` or a  *)
(* scalar, whose properties are all undefined).  A parsed object is a      *)
(* function from its keys.                                                 *)

Garbage == [wellFormed |-> FALSE, members |-> <<>>]
JsonText(members) == [wellFormed |-> TRUE, members |-> members]

\* JSON.stringify of an object literal: members in order, undefined ones left out.
JSON_stringify(members) ==
    JsonText(SelectSeq(members, LAMBDA m : m[2] # undefined))

Keys(text) == { text.members[i][1] : i \in 1..Len(text.members) }

\* JSON.parse of a well-formed text (a repeated key keeps its last value).
JSON_parse(text) ==
    [k \in Keys(text) |->
        LET last == CHOOSE i \in 1..Len(text.members) :
                        /\ text.members[i][1] = k
                        /\ \A j \in (i + 1)..Len(text.members) : text.members[j][1] # k
        IN text.members[last][2]]

\* payload?.key
Prop(obj, key) == IF key \in DOMAIN obj THEN obj[key] ELSE undefined

qrPayload(action, sessionId, code, expiresAt) ==
    JSON_stringify(<< <<"action", action>>, <<"sessionId", sessionId>>,
                      <<"code", code>>, <<"expiresAt", expiresAt>> >>)

\* A text with member `key` replaced by `value` (left out when undefined).
WithMember(text, key, value) ==
    JSON_stringify([i \in 1..Len(text.members) |->
        IF text.members[i][1] = key THEN <<key, value>> ELSE text.members[i]])

-----------------------------------------------------------------------------
(* Sessions.                                                               *)

\* randCode(): ten characters of the 32-symbol alphabet.  Two draws are taken to
\* differ (they agree with probability 32^-10): the code drawn for action `a` of
\* the n-th session.
randCode(n, a) == (IF a = "checkin" THEN "CHECKIN-0" ELSE "CHECKOUT-") \o ToString(n)

\* The id the database gives the n-th session.
SessionId(n) == "sess-" \o ToString(n)

\* The title field, already trimmed (trim() leaves both unchanged).
Titles == { "Commercial Leasing 101", "" }

SessionIds(ss) == { ss[i].id : i \in 1..Len(ss) }
SessionById(ss, id) == ss[CHOOSE i \in 1..Len(ss) : ss[i].id = id]

\* useMemo: sessions.find(s => s.id === activeSessionId) || null
HasActiveSession == activeSessionId \in SessionIds(sessions)
activeSession == SessionById(sessions, activeSessionId)

\* The two QR texts on display for a session (the useEffect on activeSession).
QrOf(s) ==
    { qrPayload("checkin", s.id, s.checkinCode, s.checkinExpiresAt),
      qrPayload("checkout", s.id, s.checkoutCode, s.checkoutExpiresAt) }

\* A QR text with one member altered or missing.
Altered(q) ==
    { WithMember(q, "action", v) : v \in { "bogus", undefined } }
    \cup { WithMember(q, "sessionId", v) : v \in { "sess-0", "", undefined } }
    \cup { WithMember(q, "code", v) : v \in { "WRONGCODE9", undefined } }
    \cup { WithMember(q, "expiresAt", v) :
               v \in { toISOString(HM(8, 0)), "not-a-date", undefined } }

\* What can be in scanText when Submit Scan is pressed: a QR text on display for
\* some session, such a text of the active session with one member altered or
\* missing, or text that is no JSON.
ScanTexts ==
    UNION { QrOf(sessions[i]) : i \in 1..Len(sessions) }
    \cup (IF HasActiveSession THEN UNION { Altered(q) : q \in QrOf(activeSession) } ELSE {})
    \cup { Garbage }

-----------------------------------------------------------------------------
(* The messages of setStatus.                                              *)

MsgNoSession == "No active session selected."
MsgLogin == "Please log in first."
MsgHeadshot == "Headshot required. Please upload your photo before checking in/out."
MsgLicense == "Enter full TREC license like 123456-SA (suffix: -SA, -B, or -BB)."
MsgInvalidQrData == "Invalid QR data. If scanning fails, paste the QR token text."
MsgWrongSession == "That code is for a different class session."
MsgInvalidQrFormat == "Invalid QR format."
MsgCheckinNotOpen == "Check-in is not open yet."
MsgCheckinClosed == "Check-in has closed for today."
MsgCheckoutNotOpen == "Check-out is not open yet."
MsgCheckoutClosed == "Check-out has closed for today."
MsgExpired == "That code has expired for today."
MsgAlreadyCheckedIn == "Already checked in."
MsgCheckinRequired == "Check-in required before check-out."
MsgAlreadyCheckedOut == "Already checked out."
MsgManualCheckin == "Manual check-in recorded."
MsgCheckedIn == "Checked in. Welcome!"
MsgManualCheckout == "Manual check-out recorded."
MsgCheckedOut == "Checked out. Thank you!"
MsgAdminRequired == "Admin access required."
MsgEnterTitle == "Enter a class title."
MsgSelectStart == "Select a class START time (Central)."
MsgSelectEnd == "Select a class END time (Central)."
MsgEndAfterStart == "End time must be after start time."
MsgSessionCreated == "Session created."
\* error.message of a failed Supabase request
MsgSupabaseError == "error.message"

-----------------------------------------------------------------------------
(* The table gg_attendance: a set of rows, at most one per                 *)
(* (session_id, trec_license), the conflict target of the upsert.          *)

Columns == { "session_id", "trec_license", "checkin_at", "checkout_at",
             "method_checkin", "method_checkout" }

HasRow(table, sid, lic) ==
    \E r \in table : r.session_id = sid /\ r.trec_license = lic

RowOf(table, sid, lic) ==
    CHOOSE r \in table : r.session_id = sid /\ r.trec_license = lic

\* { ...baseRow, [col1]: v1, [col2]: v2 }
Spread(baseRow, col1, v1, col2, v2) ==
    [c \in DOMAIN baseRow \cup { col1, col2 } |->
        IF c = col1 THEN v1 ELSE IF c = col2 THEN v2 ELSE baseRow[c]]

\* .upsert([row], { onConflict: "session_id,trec_license" }): INSERT ... ON CONFLICT
\* DO UPDATE SET the columns the row carries.
Upsert(table, row) ==
    IF HasRow(table, row.session_id, row.trec_license)
    THEN LET old == RowOf(table, row.session_id, row.trec_license)
         IN (table \ { old })
            \cup { [c \in Columns |-> IF c \in DOMAIN row THEN row[c] ELSE old[c]] }
    ELSE table \cup { [c \in Columns |-> IF c \in DOMAIN row THEN row[c] ELSE null] }

\* refreshAttendanceForActiveSession: .select("*").eq("session_id", sessionId)
RowsOfSession(table, sid) == { r \in table : r.session_id = sid }

-----------------------------------------------------------------------------
(* build "db": src/src/App.tsx 1-1198                                      *)
(*                                                                         *)
(* React state `status` is written by setStatus and read by no handler.    *)
(* The message a handler ends with is the value of its check operator      *)
(* (createSessionCheck, submitScanCheck, TransitionCheck, SuccessMsg); ""   *)
(* stands for "no message: the handler goes on".                           *)

\* The requests of submitScan that can be under way at once: two clients.
CallIds == { 1, 2 }

Idle == [pc |-> "idle"]

IsDb == build = "db"

\* The instants at which the clock of a build is observed: those around the
\* windows of build "db", and a few around the expiry of a code for the others.
InstantsOf(b) ==
    IF b = "db" THEN Instants
    ELSE IF b = "patch" THEN { HM(8, 25), HM(8, 45), HM(16, 0) }
    ELSE IF b = "local" THEN { HM(8, 25), HM(8, 45), HM(10, 55), HM(16, 0) }
    ELSE { HM(8, 25), HM(8, 45), HM(16, 0), HM(18, 1) }

\* The clock moves on to the next instant.
Tick ==
    /\ \E t \in InstantsOf(build) :
          /\ t > now
          /\ \A u \in InstantsOf(build) : ~(now < u /\ u < t)
          /\ now' = t
    /\ UNCHANGED <<roster, gg_roster, build, camVars, lastScanAt, sessions, activeSessionId, authed, isAdmin, headshotPath,
                   gg_attendance, attendance, calls, roster, gg_roster>>

\* The session select box: setActiveSessionId, then the effect on [activeSessionId].
selectSession(id) ==
    /\ IsDb
    /\ id \in SessionIds(sessions)
    /\ activeSessionId' = id
    /\ attendance' = RowsOfSession(gg_attendance, id)
    /\ UNCHANGED <<roster, gg_roster, build, camVars, lastScanAt, now, sessions, authed, isAdmin, headshotPath,
                   gg_attendance, calls>>

\* The session createSessionInSupabase builds from the two instants.
NewSession(id, title, startMs, endMs, code1, code2) ==
    LET checkinClosesMs == startMs + 30 * 60 * 1000
        checkoutClosesMs == endMs + 60 * 60 * 1000
    IN [ id |-> id,
         title |-> title,
         startsAt |-> toISOString(startMs),
         endsAt |-> toISOString(endMs),
         checkinExpiresAt |-> toISOString(checkinClosesMs),
         checkoutExpiresAt |-> toISOString(checkoutClosesMs),
         checkinCode |-> code1,
         checkoutCode |-> code2 ]

\* The checks of createSessionInSupabase: the message it returns with, "" when it
\* goes on to insert the session.
createSessionCheck(adminTitle, adminStartLocal, adminEndLocal) ==
    IF ~isAdmin THEN MsgAdminRequired
    ELSE IF adminTitle = "" THEN MsgEnterTitle
    ELSE IF adminStartLocal = <<>> THEN MsgSelectStart
    ELSE IF adminEndLocal = <<>> THEN MsgSelectEnd
    ELSE IF ~(centralLocalToMs(adminEndLocal) > centralLocalToMs(adminStartLocal))
         THEN MsgEndAfterStart
    ELSE ""

createSessionInSupabase(adminTitle, adminStartLocal, adminEndLocal) ==
    /\ IsDb
    /\ UNCHANGED <<roster, gg_roster, build, camVars, lastScanAt, now, authed, isAdmin, headshotPath, gg_attendance, calls>>
    /\ IF createSessionCheck(adminTitle, adminStartLocal, adminEndLocal) # ""
       THEN UNCHANGED <<sessions, activeSessionId, attendance>>
       ELSE LET n == Len(sessions) + 1
            IN /\ n <= MaxSessions
               /\ sessions' = Append(sessions,
                      NewSession(SessionId(n), adminTitle,
                                 centralLocalToMs(adminStartLocal),
                                 centralLocalToMs(adminEndLocal),
                                 randCode(n, "checkin"), randCode(n, "checkout")))
               /\ activeSessionId' = SessionId(n)
               /\ attendance' = RowsOfSession(gg_attendance, SessionId(n))

\* `action` after the payload has been read (lines 502-517).
ScanAction(actionOverride, scanText) ==
    IF Truthy(actionOverride) THEN actionOverride
    ELSE Prop(JSON_parse(scanText), "action")

\* WindowCheck with the two ends of each window excluded.
WindowCheckOpenEnded(action, nowMs, session) ==
    LET startMs == getTime(session.startsAt)
        endMs == getTime(session.endsAt)
    IN IF action = "checkin" /\ nowMs <= startMs - 30 * MinuteMs THEN MsgCheckinNotOpen
       ELSE IF action = "checkin" /\ nowMs >= startMs + 30 * MinuteMs THEN MsgCheckinClosed
       ELSE IF action = "checkout" /\ nowMs <= endMs - 60 * MinuteMs THEN MsgCheckoutNotOpen
       ELSE IF action = "checkout" /\ nowMs >= endMs + 60 * MinuteMs THEN MsgCheckoutClosed
       ELSE ""

\* WindowCheck with check-in opening 20 minutes before the start.
WindowCheckOpens20(action, nowMs, session) ==
    LET startMs == getTime(session.startsAt)
        endMs == getTime(session.endsAt)
    IN IF action = "checkin" /\ nowMs < startMs - 20 * MinuteMs THEN MsgCheckinNotOpen
       ELSE IF action = "checkin" /\ nowMs > startMs + 30 * MinuteMs THEN MsgCheckinClosed
       ELSE IF action = "checkout" /\ nowMs < endMs - 60 * MinuteMs THEN MsgCheckoutNotOpen
       ELSE IF action = "checkout" /\ nowMs > endMs + 60 * MinuteMs THEN MsgCheckoutClosed
       ELSE ""

\* The window checks of a scanned action (lines 525-543): the message of the first
\* check that fails, "" when none does.
WindowCheck(action, nowMs, session) ==
    LET startMs == getTime(session.startsAt)
        endMs == getTime(session.endsAt)
        checkinOpensMs == startMs - 30 * 60 * 1000
        checkinClosesMs == startMs + 30 * 60 * 1000
        checkoutOpensMs == endMs - 60 * 60 * 1000
        checkoutClosesMs == endMs + 60 * 60 * 1000
    IN IF action = "checkin" /\ nowMs < checkinOpensMs THEN MsgCheckinNotOpen
       ELSE IF action = "checkin" /\ nowMs > checkinClosesMs THEN MsgCheckinClosed
       ELSE IF action = "checkout" /\ nowMs < checkoutOpensMs THEN MsgCheckoutNotOpen
       ELSE IF action = "checkout" /\ nowMs > checkoutClosesMs THEN MsgCheckoutClosed
       ELSE ""

\* PayloadCheck with the window applied to a given action as well.
PayloadCheckWindowAlways(actionOverride, action, sessionId, code, expiresAt) ==
    IF sessionId # activeSession.id THEN MsgWrongSession
    ELSE IF ~Truthy(action) THEN MsgInvalidQrFormat
    ELSE IF WindowCheck(action, now, activeSession) # ""
         THEN WindowCheck(action, now, activeSession)
    ELSE IF Truthy(actionOverride) THEN ""
    ELSE IF ~Truthy(code) \/ ~Truthy(expiresAt) THEN MsgInvalidQrFormat
    ELSE IF isExpired(expiresAt) THEN MsgExpired
    ELSE ""

\* The checks on a parsed payload (lines 519-546).
PayloadCheck(actionOverride, action, sessionId, code, expiresAt) ==
    IF sessionId # activeSession.id THEN MsgWrongSession
    ELSE IF ~Truthy(action) THEN MsgInvalidQrFormat
    ELSE IF Truthy(actionOverride) THEN ""
    ELSE IF ~Truthy(code) \/ ~Truthy(expiresAt) THEN MsgInvalidQrFormat
    ELSE IF WindowCheck(action, now, activeSession) # ""
         THEN WindowCheck(action, now, activeSession)
    ELSE IF isExpired(expiresAt) THEN MsgExpired
    ELSE ""

\* submitScan up to its first await (lines 487-546): the message it returns with,
\* "" when it goes on to read the attendance row.
submitScanCheck(actionOverride, licenseInput, scanText) ==
    IF ~HasActiveSession THEN MsgNoSession
    ELSE IF ~authed THEN MsgLogin
    ELSE IF ~Truthy(headshotPath) THEN MsgHeadshot
    ELSE IF ~isValidLicense(normalizeLicense(licenseInput)) THEN MsgLicense
    ELSE IF Truthy(actionOverride)
         THEN PayloadCheck(actionOverride, actionOverride, activeSession.id, null, null)
    ELSE IF ~scanText.wellFormed THEN MsgInvalidQrData
    ELSE LET payload == JSON_parse(scanText)
         IN PayloadCheck(actionOverride, Prop(payload, "action"),
                         Prop(payload, "sessionId"), Prop(payload, "code"),
                         Prop(payload, "expiresAt"))

\* submitScan, from the call to the select request (lines 487-554).
submitScan(c, method, actionOverride, licenseInput, scanText) ==
    /\ IsDb
    /\ calls[c] = Idle
    /\ \A d \in CallIds : d < c => calls[d] # Idle
    /\ LET msg == submitScanCheck(actionOverride, licenseInput, scanText)
       IN IF msg # ""
          THEN UNCHANGED calls
          ELSE calls' = [calls EXCEPT ![c] =
                    [ pc |-> "select",
                      session_id |-> activeSession.id,
                      trec_license |-> normalizeLicense(licenseInput),
                      method |-> method,
                      action |-> ScanAction(actionOverride, scanText) ]]
    /\ UNCHANGED <<roster, gg_roster, build, camVars, lastScanAt, now, sessions, activeSessionId, authed, isAdmin,
                   headshotPath, gg_attendance, attendance>>

\* The select fails: `if (selErr) return setStatus(selErr.message)` (line 556).
selectFails(c) ==
    /\ IsDb
    /\ calls[c].pc = "select"
    /\ calls' = [calls EXCEPT ![c] = Idle]
    /\ UNCHANGED <<roster, gg_roster, build, camVars, lastScanAt, now, sessions, activeSessionId, authed, isAdmin,
                   headshotPath, gg_attendance, attendance>>

\* The row the upsert of an accepted action carries (lines 565-569, 583-587).
NextRow(baseRow, action, method, stamp) ==
    IF action = "checkin"
    THEN Spread(baseRow, "checkin_at", stamp, "method_checkin", method)
    ELSE Spread(baseRow, "checkout_at", stamp, "method_checkout", method)

\* TransitionCheck that refuses nothing.
TransitionCheckNone(baseRow, action) == ""

\* TransitionCheck without the test for an earlier check-in.
TransitionCheckNoCheckin(baseRow, action) ==
    IF action = "checkin"
    THEN IF Truthy(Prop(baseRow, "checkin_at")) THEN MsgAlreadyCheckedIn ELSE ""
    ELSE IF Truthy(Prop(baseRow, "checkout_at")) THEN MsgAlreadyCheckedOut
    ELSE ""

\* The message a state transition is refused with (lines 561, 578, 579), "" when
\* it is accepted.
TransitionCheck(baseRow, action) ==
    IF action = "checkin"
    THEN IF Truthy(Prop(baseRow, "checkin_at")) THEN MsgAlreadyCheckedIn ELSE ""
    ELSE IF ~Truthy(Prop(baseRow, "checkin_at")) THEN MsgCheckinRequired
    ELSE IF Truthy(Prop(baseRow, "checkout_at")) THEN MsgAlreadyCheckedOut
    ELSE ""

\* The select returns: submitScan from line 556 to the upsert request.
selectReturns(c) ==
    /\ IsDb
    /\ calls[c].pc = "select"
    /\ LET call == calls[c]
           baseRow == IF HasRow(gg_attendance, call.session_id, call.trec_license)
                      THEN RowOf(gg_attendance, call.session_id, call.trec_license)
                      ELSE [ session_id |-> call.session_id,
                             trec_license |-> call.trec_license ]
       IN IF call.action \notin { "checkin", "checkout" }
          THEN \* neither branch is taken: the function ends without a message
               calls' = [calls EXCEPT ![c] = Idle]
          ELSE IF TransitionCheck(baseRow, call.action) # ""
          THEN calls' = [calls EXCEPT ![c] = Idle]
          ELSE calls' = [calls EXCEPT ![c] =
                    [ pc |-> "upsert",
                      session_id |-> call.session_id,
                      trec_license |-> call.trec_license,
                      method |-> call.method,
                      action |-> call.action,
                      row |-> NextRow(baseRow, call.action, call.method, isoNow) ]]
    /\ UNCHANGED <<roster, gg_roster, build, camVars, lastScanAt, now, sessions, activeSessionId, authed, isAdmin,
                   headshotPath, gg_attendance, attendance>>

\* The upsert fails: `if (error) return setStatus(error.message)` (lines 572, 590).
upsertFails(c) ==
    /\ IsDb
    /\ calls[c].pc = "upsert"
    /\ calls' = [calls EXCEPT ![c] = Idle]
    /\ UNCHANGED <<roster, gg_roster, build, camVars, lastScanAt, now, sessions, activeSessionId, authed, isAdmin,
                   headshotPath, gg_attendance, attendance>>

\* The message of a recorded action (lines 574, 592).
SuccessMsg(action, method) ==
    IF action = "checkin"
    THEN IF method = "manual" THEN MsgManualCheckin ELSE MsgCheckedIn
    ELSE IF method = "manual" THEN MsgManualCheckout ELSE MsgCheckedOut

\* The upsert is applied and returns: the refresh and the message (lines 572-574,
\* 590-592).
upsertReturns(c) ==
    /\ IsDb
    /\ calls[c].pc = "upsert"
    /\ gg_attendance' = Upsert(gg_attendance, calls[c].row)
    /\ attendance' = RowsOfSession(gg_attendance', calls[c].session_id)
    /\ calls' = [calls EXCEPT ![c] = Idle]
    /\ UNCHANGED <<roster, gg_roster, build, camVars, lastScanAt, now, sessions, activeSessionId, authed, isAdmin, headshotPath>>

-----------------------------------------------------------------------------

InitDb ==
    /\ build = "db"
    /\ CameraOff
    /\ lastScanAt = 0
    /\ now = HM(8, 25)
    /\ sessions = <<>>
    /\ activeSessionId = ""
    /\ authed \in BOOLEAN
    /\ isAdmin \in { a \in BOOLEAN : a => authed }
    /\ headshotPath \in { "", "user/headshot.jpg" }
    /\ gg_attendance = {}
    /\ attendance = {}
    /\ calls = [c \in CallIds |-> Idle]
    /\ roster = {}
    /\ gg_roster = {}

\* The steps of the build when the clients named in `slots` use it.
NextDb(slots) ==
    \/ IsDb /\ \E id \in SessionIds(sessions) : selectSession(id)
    \/ \E t \in Titles, st \in StartLocals \cup { <<>> }, en \in EndLocals \cup { <<>> } :
          createSessionInSupabase(t, st, en)
    \/ IsDb /\ \E c \in slots, lic \in LicenseInputs, text \in ScanTexts :
          submitScan(c, "scan", undefined, lic, text)
    \/ IsDb /\ \E c \in slots, lic \in LicenseInputs, a \in { "checkin", "checkout" } :
          submitScan(c, "manual", a, lic, Garbage)
    \/ \E c \in slots : selectFails(c)
    \/ \E c \in slots : selectReturns(c)
    \/ \E c \in slots : upsertFails(c)
    \/ \E c \in slots : upsertReturns(c)

\* Two clients within one instant of the clock, a session being open.
InitDbRace ==
    /\ build = "db"
    /\ CameraOff
    /\ lastScanAt = 0
    /\ now \in { HM(8, 45), HM(16, 0) }
    /\ sessions = << NewSession(SessionId(1), "Commercial Leasing 101",
                                centralLocalToMs(<<3, 0>>), centralLocalToMs(<<11, 0>>),
                                randCode(1, "checkin"), randCode(1, "checkout")) >>
    /\ activeSessionId = SessionId(1)
    /\ authed = TRUE
    /\ isAdmin = FALSE
    /\ headshotPath = "user/headshot.jpg"
    /\ gg_attendance = {}
    /\ attendance = {}
    /\ calls = [c \in CallIds |-> Idle]
    /\ roster = {}
    /\ gg_roster = {}

NextDbRace == NextDb(CallIds)

SpecDbRace == InitDbRace /\ [][NextDbRace]_vars

-----------------------------------------------------------------------------
(* build "local": src/unnamed/part_003 529-1493.  Sessions, roster and     *)
(* attendance are React state; every handler runs to its end at once.      *)

IsLocal == build = "local"

MsgLicenseLocal ==
    "Enter full TREC license number like 123456-SA (suffix required: -SA, -B, or -BB)."
MsgNotOnRoster ==
    "That TREC license number is not on the paid roster for this class session."
MsgInvalidCheckinCode == "Invalid check-in code."
MsgInvalidCheckoutCode == "Invalid check-out code."
MsgUnknownAction == "Unknown action."

\* new Date(iso).toLocaleTimeString(), here the minute of the day
toLocaleTimeString(iso) == ToString(getTime(iso) \div MinuteMs)
MsgAlreadyCheckedInAt(iso) == "Already checked in (" \o toLocaleTimeString(iso) \o ")."
MsgAlreadyCheckedOutAt(iso) == "Already checked out (" \o toLocaleTimeString(iso) \o ")."

\* isValidLicense of this build: /^\d{6,7}-(SA|B|BB)$/ on the normalized text.
isValidLicenseLocal(raw) ==
    LET v == normalizeLicense(raw)
    IN \E n \in {6, 7} :
          /\ Len(v) > n
          /\ \A i \in 1..n : v[i] \in Digits
          /\ v[n + 1] = "-"
          /\ SubSeq(v, n + 2, Len(v)) \in { <<"S", "A">>, <<"B">>, <<"B", "B">> }

\* The session the effect on [sessions.length] creates when there is none.
DemoSession ==
    LET start == now + 60 * 60 * 1000
        end == start + 3 * 60 * 60 * 1000
        checkinExp == start + 90 * 60 * 1000
        checkoutExp == end + 10 * 60 * 1000
    IN [ id |-> SessionId(1),
         title |-> "Demo Class Session",
         startsAt |-> toISOString(start),
         endsAt |-> toISOString(end),
         checkinExpiresAt |-> toISOString(checkinExp),
         checkoutExpiresAt |-> toISOString(checkoutExp),
         checkinCode |-> randCode(1, "checkin"),
         checkoutCode |-> randCode(1, "checkout") ]

\* The licence columns an admin can paste into the roster field.
RosterCSVs == { <<>>, << <<"1", "2", "3", "4", "5", "6", "-", "s", "a">> >> }

\* csvToRoster, the licence column only: normalized, the invalid ones dropped.
csvToRoster(csv) ==
    { normalizeLicense(csv[i]) : i \in { j \in 1..Len(csv) : isValidLicenseLocal(csv[j]) } }

importRoster(csv) ==
    /\ IsLocal
    /\ isAdmin
    /\ roster' = csvToRoster(csv)
    /\ UNCHANGED <<build, camVars, lastScanAt, now, sessions, activeSessionId, authed, isAdmin, headshotPath,
                   gg_attendance, attendance, calls, gg_roster>>

rosterContains(licenseRaw) == normalizeLicense(licenseRaw) \in roster

\* upsertAttendance: the record of (sessionId, licence), its index, and the array
\* handed to setAttendance (the array as it was when the record is found).
upsertAttendance(sessionId, trec_license_raw) ==
    LET trec_license == normalizeLicense(trec_license_raw)
        found == { i \in 1..Len(attendance) :
                      /\ attendance[i].session_id = sessionId
                      /\ attendance[i].trec_license = trec_license }
    IN IF found # {}
       THEN LET idx == CHOOSE i \in found : \A j \in found : i <= j
            IN [ rec |-> attendance[idx], idx |-> idx, next |-> attendance ]
       ELSE LET rec == [ session_id |-> sessionId, trec_license |-> trec_license ]
            IN [ rec |-> rec, idx |-> Len(attendance) + 1,
                 next |-> Append(attendance, rec) ]

\* updateAttendance: a copy of `attendance` as the handler saw it when it started,
\* with rec at idx.
updateAttendance(idx, rec) ==
    [i \in 1..(IF idx > Len(attendance) THEN idx ELSE Len(attendance)) |->
        IF i = idx THEN rec ELSE attendance[i]]

\* The payload submitScan works on: null when an action is given.
PayloadLocal(actionOverride, scanText) ==
    IF Truthy(actionOverride) THEN JSON_parse(JsonText(<<>>)) ELSE JSON_parse(scanText)

\* actionOverride || payload?.action
ActionLocal(actionOverride, scanText) ==
    IF Truthy(actionOverride) THEN actionOverride
    ELSE Prop(PayloadLocal(actionOverride, scanText), "action")

\* payload?.sessionId || activeSession.id
SessionIdLocal(actionOverride, scanText) ==
    LET sessionId == Prop(PayloadLocal(actionOverride, scanText), "sessionId")
    IN IF Truthy(sessionId) THEN sessionId ELSE activeSession.id

\* submitScan up to upsertAttendance (lines 982-1029): the message it returns
\* with, "" when it goes on.
submitScanLocalCheck(method, actionOverride, licenseRaw, scanText) ==
    IF ~HasActiveSession THEN MsgNoSession
    ELSE IF ~isValidLicenseLocal(normalizeLicense(licenseRaw)) THEN MsgLicenseLocal
    ELSE IF method = "scan" /\ ~authed THEN MsgLogin
    ELSE IF method = "scan" /\ ~rosterContains(normalizeLicense(licenseRaw))
         THEN MsgNotOnRoster
    ELSE IF ~Truthy(actionOverride) /\ ~scanText.wellFormed THEN MsgInvalidQrData
    ELSE LET payload == PayloadLocal(actionOverride, scanText)
             action == ActionLocal(actionOverride, scanText)
             code == Prop(payload, "code")
             expiresAt == Prop(payload, "expiresAt")
         IN IF SessionIdLocal(actionOverride, scanText) # activeSession.id
            THEN MsgWrongSession
            ELSE IF ~Truthy(action) THEN MsgInvalidQrFormat
            ELSE IF method # "scan" THEN ""
            ELSE IF ~Truthy(code) \/ ~Truthy(expiresAt) THEN MsgInvalidQrFormat
            ELSE IF isExpired(expiresAt) THEN MsgExpired
            ELSE IF action = "checkin" /\ code # activeSession.checkinCode
                 THEN MsgInvalidCheckinCode
            ELSE IF action = "checkout" /\ code # activeSession.checkoutCode
                 THEN MsgInvalidCheckoutCode
            ELSE ""

\* The message of the state machine for the record found (lines 1031-1049); the
\* recorded action gets the message of SuccessMsg.
TransitionCheckLocal(rec, action, method) ==
    IF action = "checkin"
    THEN IF Truthy(Prop(rec, "checkin_at"))
         THEN MsgAlreadyCheckedInAt(rec.checkin_at)
         ELSE SuccessMsg(action, method)
    ELSE IF action = "checkout"
    THEN IF ~Truthy(Prop(rec, "checkin_at")) THEN MsgCheckinRequired
         ELSE IF Truthy(Prop(rec, "checkout_at"))
         THEN MsgAlreadyCheckedOutAt(rec.checkout_at)
         ELSE SuccessMsg(action, method)
    ELSE MsgUnknownAction

\* `attendance` after submitScan has passed its checks (lines 1029-1049).
AttendanceAfter(method, action, licenseRaw) ==
    LET up == upsertAttendance(activeSession.id, normalizeLicense(licenseRaw))
        msg == TransitionCheckLocal(up.rec, action, method)
    IN IF msg # SuccessMsg(action, method) \/ action \notin { "checkin", "checkout" }
       THEN up.next
       ELSE updateAttendance(up.idx, NextRow(up.rec, action, method, isoNow))

\* The message submitScan ends with (lines 982-1049).
OutcomeLocal(method, actionOverride, licenseRaw, scanText) ==
    IF submitScanLocalCheck(method, actionOverride, licenseRaw, scanText) # ""
    THEN submitScanLocalCheck(method, actionOverride, licenseRaw, scanText)
    ELSE TransitionCheckLocal(
             upsertAttendance(activeSession.id, normalizeLicense(licenseRaw)).rec,
             ActionLocal(actionOverride, scanText), method)

\* `attendance` when submitScan has ended.
AttendanceOf(method, actionOverride, licenseRaw, scanText) ==
    IF submitScanLocalCheck(method, actionOverride, licenseRaw, scanText) # ""
    THEN attendance
    ELSE AttendanceAfter(method, ActionLocal(actionOverride, scanText), licenseRaw)

submitScanLocal(method, actionOverride, licenseRaw, scanText) ==
    /\ IsLocal
    /\ method = "manual" => isAdmin
    /\ attendance' = AttendanceOf(method, actionOverride, licenseRaw, scanText)
    /\ UNCHANGED <<build, camVars, lastScanAt, now, sessions, activeSessionId, authed, isAdmin, headshotPath,
                   gg_attendance, calls, roster, gg_roster>>

\* new Date(v).getTime() of a datetime-local value, the browser keeping Central
\* time; NaN for the empty field.
newDateMs(v) == IF v = <<>> THEN NaN ELSE centralLocalToMs(v)

\* The expiry fields of the admin tab as the admin can set them.
CheckinExpLocals == { <<3, 30>> }
CheckoutExpLocals == { <<12, 0>> }

\* createSession with setSessions([s]) in place of setSessions(prev => [s, ...prev]).
createSessionLocalReplacing(newTitle, newStart, newEnd, newCheckinExp, newCheckoutExp) ==
    /\ IsLocal
    /\ isAdmin
    /\ UNCHANGED <<build, camVars, lastScanAt, now, authed, isAdmin, headshotPath, gg_attendance,
                   attendance, calls, roster, gg_roster>>
    /\ IF \E v \in { newStart, newEnd, newCheckinExp, newCheckoutExp } : newDateMs(v) = NaN
       THEN UNCHANGED <<sessions, activeSessionId>>
       ELSE LET n == Len(sessions) + 1
                s == [ id |-> SessionId(n),
                       title |-> IF newTitle = "" THEN "Untitled Session" ELSE newTitle,
                       startsAt |-> toISOString(newDateMs(newStart)),
                       endsAt |-> toISOString(newDateMs(newEnd)),
                       checkinExpiresAt |-> toISOString(newDateMs(newCheckinExp)),
                       checkoutExpiresAt |-> toISOString(newDateMs(newCheckoutExp)),
                       checkinCode |-> randCode(n, "checkin"),
                       checkoutCode |-> randCode(n, "checkout") ]
            IN /\ n <= MaxSessions + 1
               /\ sessions' = << s >>
               /\ activeSessionId' = s.id

\* createSession (lines 1117-1132); fromLocalInputValue throws on an empty field
\* (toISOString of an invalid date) and the handler ends there.
createSessionLocal(newTitle, newStart, newEnd, newCheckinExp, newCheckoutExp) ==
    /\ IsLocal
    /\ isAdmin
    /\ UNCHANGED <<build, camVars, lastScanAt, now, authed, isAdmin, headshotPath, gg_attendance,
                   attendance, calls, roster, gg_roster>>
    /\ IF \E v \in { newStart, newEnd, newCheckinExp, newCheckoutExp } : newDateMs(v) = NaN
       THEN UNCHANGED <<sessions, activeSessionId>>
       ELSE LET n == Len(sessions) + 1
                s == [ id |-> SessionId(n),
                       title |-> IF newTitle = "" THEN "Untitled Session" ELSE newTitle,
                       startsAt |-> toISOString(newDateMs(newStart)),
                       endsAt |-> toISOString(newDateMs(newEnd)),
                       checkinExpiresAt |-> toISOString(newDateMs(newCheckinExp)),
                       checkoutExpiresAt |-> toISOString(newDateMs(newCheckoutExp)),
                       checkinCode |-> randCode(n, "checkin"),
                       checkoutCode |-> randCode(n, "checkout") ]
            IN /\ n <= MaxSessions + 1
               /\ sessions' = << s >> \o sessions
               /\ activeSessionId' = s.id

InitLocal ==
    /\ build = "local"
    /\ CameraOff
    /\ lastScanAt = 0
    /\ now = HM(8, 25)
    /\ sessions = << DemoSession >>
    /\ activeSessionId = SessionId(1)
    /\ authed \in BOOLEAN
    /\ isAdmin \in { a \in BOOLEAN : a => authed }
    /\ headshotPath = ""
    /\ gg_attendance = {}
    /\ attendance = <<>>
    /\ calls = [c \in CallIds |-> Idle]
    /\ roster \in { {}, csvToRoster(<< <<"1", "2", "3", "4", "5", "6", "-", "S", "A">> >>) }
    /\ gg_roster = {}

NextLocal ==
    \/ \E csv \in RosterCSVs : importRoster(csv)
    \/ IsLocal /\ \E lic \in LicenseInputs, text \in ScanTexts :
          submitScanLocal("scan", undefined, lic, text)
    \/ \E lic \in LicenseInputs, a \in { "checkin", "checkout" } :
          submitScanLocal("manual", a, lic, Garbage)
    \/ \E st \in StartLocals, en \in EndLocals \cup { <<>> },
          e1 \in CheckinExpLocals, e2 \in CheckoutExpLocals :
          createSessionLocal("", st, en, e1, e2)

-----------------------------------------------------------------------------
(* build "roster": src/src/App.tsx 1199-2900.  A student's client scans;   *)
(* an admin's client shows the rows of gg_roster it last loaded and acts   *)
(* on them.  `authed` is the student's authUser, `isAdmin` the admin       *)
(* client being in admin mode, `activeSessionId` its selectedSessionId.    *)

IsRoster == build = "roster"

RosterColumns == { "session_id", "trec_license", "checkin_at", "checkout_at",
                   "status", "absent" }

\* normalizeLicense of this build: raw.trim()
normalizeLicenseRoster(raw) == trim(raw)

\* authUser.user_metadata.trec_license of the student
MetaLicense == <<" ", "1", "2", "3", "4", "5", "6", "-", "S", "A">>

encodeURIComponent(text) == [ encoded |-> text ]
decodeURIComponent(e) == e.encoded

\* What a QR code on display decodes to: `data:text/plain,` and the encoded payload.
DataUri(text) == [ prefix |-> "data:text/plain,", rest |-> encodeURIComponent(text) ]
\* A QR code that holds the text itself.
PlainText(text) == [ prefix |-> "", rest |-> text ]

RosterPayload(sessionId, action) ==
    JSON_stringify(<< <<"session_id", sessionId>>, <<"action", action>> >>)

\* checkinQrUrl, checkoutQrUrl
RosterQr(sessionId, action) == DataUri(RosterPayload(sessionId, action))

\* What the student's camera can decode.
RosterScans ==
    { RosterQr(SessionId(1), a) : a \in { "checkin", "checkout" } }
    \cup { PlainText(RosterPayload(SessionId(1), "checkin")),
           PlainText(RosterPayload(undefined, "checkin")),
           PlainText(RosterPayload(SessionId(1), "bogus")),
           PlainText(Garbage) }

\* .update(patch).eq("session_id", sessionId).eq("trec_license", lic)
UpdateRows(table, sessionId, lic, patch) ==
    { IF r.session_id = sessionId /\ r.trec_license = lic
      THEN [c \in RosterColumns |-> IF c \in DOMAIN patch THEN patch[c] ELSE r[c]]
      ELSE r : r \in table }

\* .upsert([baseRow], { onConflict: "session_id,trec_license" })
UpsertRoster(table, baseRow) ==
    IF \E r \in table : r.session_id = baseRow.session_id
                        /\ r.trec_license = baseRow.trec_license
    THEN UpdateRows(table, baseRow.session_id, baseRow.trec_license, baseRow)
    ELSE table \cup
           { [c \in RosterColumns |-> IF c \in DOMAIN baseRow THEN baseRow[c] ELSE null] }

\* The text handleScan parses (lines 2089-2097).
PayloadText(raw) ==
    IF raw.prefix = "data:text/plain," THEN decodeURIComponent(raw.rest) ELSE raw.rest

\* handleScan recognizes the code (lines 2099-2111).
Recognized(raw) ==
    /\ PayloadText(raw).wellFormed
    /\ Truthy(Prop(JSON_parse(PayloadText(raw)), "session_id"))
    /\ Prop(JSON_parse(PayloadText(raw)), "action") \in { "checkin", "checkout" }

\* gg_roster after handleScan's upsert and update (lines 2120-2141).
RosterAfterScan(table, sessionId, action, lic, stamp) ==
    LET baseRow == [ session_id |-> sessionId, trec_license |-> lic,
                     status |-> "present", absent |-> FALSE ]
        patch == IF action = "checkin"
                 THEN [ checkin_at |-> stamp, status |-> "present", absent |-> FALSE ]
                 ELSE [ checkout_at |-> stamp ]
    IN UpdateRows(UpsertRoster(table, baseRow), sessionId, lic, patch)

handleScan(raw) ==
    /\ IsRoster
    /\ gg_roster' =
          IF ~authed \/ ~Recognized(raw) \/ normalizeLicenseRoster(MetaLicense) = <<>>
          THEN gg_roster
          ELSE LET payload == JSON_parse(PayloadText(raw))
               IN RosterAfterScan(gg_roster, payload.session_id, payload.action,
                                  normalizeLicenseRoster(MetaLicense), isoNow)
    /\ UNCHANGED <<build, camVars, lastScanAt, now, sessions, activeSessionId, authed, isAdmin, headshotPath,
                   gg_attendance, attendance, calls, roster>>

\* loadRosterFromDb(selectedSessionId), as the effect on [mode, isAdmin,
\* selectedSessionId] runs it.
loadRosterFromDb ==
    /\ IsRoster
    /\ isAdmin
    /\ Truthy(activeSessionId)
    /\ roster' = { r \in gg_roster : r.session_id = activeSessionId }
    /\ UNCHANGED <<build, camVars, lastScanAt, now, sessions, activeSessionId, authed, isAdmin, headshotPath,
                   gg_attendance, attendance, calls, gg_roster>>

\* A button of row r in the admin's table: updateRosterRow, then loadRosterFromDb.
RosterButton(r, patch) ==
    /\ IsRoster
    /\ isAdmin
    /\ r \in roster
    /\ Truthy(activeSessionId)
    /\ gg_roster' = UpdateRows(gg_roster, activeSessionId, r.trec_license, patch)
    /\ roster' = { x \in gg_roster' : x.session_id = activeSessionId }
    /\ UNCHANGED <<build, camVars, lastScanAt, now, sessions, activeSessionId, authed, isAdmin, headshotPath,
                   gg_attendance, attendance, calls>>

\* The buttons are drawn from r as loaded: "Manual Check-in" when it has no
\* checkin_at, "Undo Check-in" otherwise; likewise for the check-out.
manualCheckIn(r) ==
    /\ IsRoster
    /\ ~Truthy(r.checkin_at)
    /\ RosterButton(r, [ checkin_at |-> isoNow, status |-> "present", absent |-> FALSE ])

undoCheckIn(r) ==
    /\ IsRoster
    /\ Truthy(r.checkin_at)
    /\ RosterButton(r, [ checkin_at |-> null ])

manualCheckOut(r) ==
    /\ IsRoster
    /\ ~Truthy(r.checkout_at)
    /\ RosterButton(r, [ checkout_at |-> isoNow ])

\* undoCheckOut clearing both timestamps.
undoCheckOutBoth(r) ==
    /\ IsRoster
    /\ Truthy(r.checkout_at)
    /\ RosterButton(r, [ checkin_at |-> null, checkout_at |-> null ])

undoCheckOut(r) ==
    /\ IsRoster
    /\ Truthy(r.checkout_at)
    /\ RosterButton(r, [ checkout_at |-> null ])

MsgTitleStartEndRoster == "Note: Please select a class title, start time, and end time."

\* null for an empty or invalid field
safeIsoFromDateTimeLocal(v) ==
    IF newDateMs(v) = NaN THEN null ELSE toISOString(newDateMs(v))

\* The note createSession returns with (lines 1555-1565), "" when it goes on to
\* insert the session; it returns without a note when the user is no admin.
createSessionRosterCheck(newTitle, newStartsLocal, newEndsLocal) ==
    IF newTitle = "" \/ safeIsoFromDateTimeLocal(newStartsLocal) = null
       \/ safeIsoFromDateTimeLocal(newEndsLocal) = null
    THEN MsgTitleStartEndRoster
    ELSE ""

\* createSession (lines 1555-1585): the insert, loadSessions, setSelectedSessionId
\* and the effect that loads the roster of the selected session.
createSessionRoster(newTitle, newStartsLocal, newEndsLocal) ==
    /\ IsRoster
    /\ isAdmin
    /\ UNCHANGED <<build, camVars, lastScanAt, now, authed, isAdmin, headshotPath, gg_attendance,
                   attendance, calls, gg_roster>>
    /\ IF createSessionRosterCheck(newTitle, newStartsLocal, newEndsLocal) # ""
       THEN UNCHANGED <<sessions, activeSessionId, roster>>
       ELSE LET n == Len(sessions) + 1
            IN /\ n <= MaxSessions + 1
               /\ sessions' = Append(sessions,
                      [ id |-> SessionId(n), title |-> newTitle,
                        starts_at |-> safeIsoFromDateTimeLocal(newStartsLocal),
                        ends_at |-> safeIsoFromDateTimeLocal(newEndsLocal) ])
               /\ activeSessionId' = SessionId(n)
               /\ roster' = { r \in gg_roster : r.session_id = SessionId(n) }

InitRoster ==
    /\ build = "roster"
    /\ CameraOff
    /\ lastScanAt = 0
    /\ now = HM(8, 25)
    /\ sessions = << [ id |-> SessionId(1) ] >>
    /\ activeSessionId = SessionId(1)
    /\ authed \in BOOLEAN
    /\ isAdmin \in BOOLEAN
    /\ headshotPath = ""
    /\ gg_attendance = {}
    /\ attendance = <<>>
    /\ calls = [c \in CallIds |-> Idle]
    /\ roster = {}
    /\ gg_roster = {}

NextRoster ==
    \/ \E raw \in RosterScans : handleScan(raw)
    \/ loadRosterFromDb
    \/ IsRoster /\ \E r \in roster : manualCheckIn(r)
    \/ IsRoster /\ \E r \in roster : undoCheckIn(r)
    \/ IsRoster /\ \E r \in roster : manualCheckOut(r)
    \/ IsRoster /\ \E r \in roster : undoCheckOut(r)
    \/ \E t \in Titles, st \in StartLocals \cup { <<>> }, en \in EndLocals \cup { <<>> } :
          createSessionRoster(t, st, en)

-----------------------------------------------------------------------------
(* build "patch": src/unnamed/part_004.  The roster of a session is the    *)
(* rows of gg_roster; a student's scan and the admin's buttons update the  *)
(* row of (session_id, trec_license).  `roster` is the admin's copy.       *)

IsPatch == build = "patch"

PatchColumns == { "session_id", "trec_license", "absent", "checkin_at", "checkout_at" }

\* normalizeLicense of this build: (s || "").trim().toUpperCase()
normalizeLicensePatch(s) == toUpperCase(trim(s))

\* The account field trecLicense, and the walk-in field of the admin.
PatchLicenses == { <<" ", "1", "2", "3", "4", "5", "6", "-", "s", "a">>, <<>> }

MsgTitleStartEnd == "Title, start, and end are required."
\* The toasts, their ellipsis, apostrophe and check mark written in ASCII.
ToastNotOurLanguage == "Hmm... that QR code isn't speaking our language."
ToastLoginFirst == "Login first, then scan again."
ToastAddLicense == "Add a TREC license to the account first."
ToastCheckedIn == "Checked in! Go be great in class."
ToastCheckedOut == "Checked out! See you next time."

\* A scanned payload is the sequence of its pieces: a URL with the parameters
\* session_id and mode, "session:<id>|<mode>", a bare session id, or nothing.
PatchPayloads ==
    { <<"https://ggsore.example/scan?", "session_id=", SessionId(1), "&mode=", "checkout">>,
      <<"session:", SessionId(1), "|", "checkin">>,
      <<"session:", SessionId(1), "|", "checkout">>,
      <<SessionId(1)>>,
      <<"sess-0">>,
      <<>> }

\* The text of a sequence of pieces.
RECURSIVE Joined(_)
Joined(pieces) == IF pieces = <<>> THEN "" ELSE Head(pieces) \o Joined(Tail(pieces))

\* The piece that follows the piece `key`, "" when there is none.
After(payload, key) ==
    LET at == { i \in 1..Len(payload) : payload[i] = key }
    IN IF at = {} \/ (CHOOSE i \in at : \A j \in at : i <= j) = Len(payload) THEN ""
       ELSE payload[(CHOOSE i \in at : \A j \in at : i <= j) + 1]

\* The place of the first "|" in the payload, one past its end when it has none.
FirstBar(payload) ==
    LET at == { i \in 1..Len(payload) : payload[i] = "|" }
    IN IF at = {} THEN Len(payload) + 1 ELSE CHOOSE i \in at : \A j \in at : i <= j

\* What handleScanPayload reads from the payload (lines 531-553).
ParsedPayload(payload, scanMode) ==
    LET has(key) == \E i \in 1..Len(payload) : payload[i] = key
        modeOf(m) == IF m \in { "checkin", "checkout" } THEN m ELSE scanMode
    IN IF has("session_id=")
       THEN [ sessionId |-> After(payload, "session_id="),
              mode |-> modeOf(After(payload, "&mode=")) ]
       ELSE IF payload # <<>> /\ Head(payload) = "session:"
       THEN [ sessionId |-> Joined(SubSeq(payload, 2, FirstBar(payload) - 1)),
              mode |-> modeOf(After(payload, "|")) ]
       ELSE [ sessionId |-> Joined(payload), mode |-> scanMode ]

\* The toast handleScanPayload ends with once it has passed the debounce; the
\* update returns no error when it matches no row.
ScanToast(payload, scanMode, trecLicense) ==
    IF ParsedPayload(payload, scanMode).sessionId = "" THEN ToastNotOurLanguage
    ELSE IF ~authed THEN ToastLoginFirst
    ELSE IF normalizeLicensePatch(trecLicense) = <<>> THEN ToastAddLicense
    ELSE IF ParsedPayload(payload, scanMode).mode = "checkin" THEN ToastCheckedIn
    ELSE ToastCheckedOut

\* .update(patch).eq("session_id", sessionId).eq("trec_license", lic)
UpdatePatchRows(table, sessionId, lic, patch) ==
    { IF r.session_id = sessionId /\ r.trec_license = lic
      THEN [c \in DOMAIN r |-> IF c \in DOMAIN patch THEN patch[c] ELSE r[c]]
      ELSE r : r \in table }

\* gg_roster when handleScanPayload has ended (lines 570-580).
RosterAfterPayload(payload, scanMode, trecLicense) ==
    LET parsed == ParsedPayload(payload, scanMode)
    IN IF ScanToast(payload, scanMode, trecLicense) \notin { ToastCheckedIn, ToastCheckedOut }
       THEN gg_roster
       ELSE UpdatePatchRows(gg_roster, parsed.sessionId, normalizeLicensePatch(trecLicense),
                            IF parsed.mode = "checkin" THEN [ checkin_at |-> isoNow ]
                            ELSE [ checkout_at |-> isoNow ])

handleScanPayload(payload, scanMode, trecLicense) ==
    /\ IsPatch
    /\ ~(now - lastScanAt < 1250)
    /\ lastScanAt' = now
    /\ gg_roster' = RosterAfterPayload(payload, scanMode, trecLicense)
    /\ UNCHANGED <<build, camVars, now, sessions, activeSessionId, authed, isAdmin, headshotPath,
                   gg_attendance, attendance, calls, roster>>

\* The checks of createSession (lines 312-322): the message it returns with, ""
\* when it goes on to insert the session.
createSessionPatchCheck(title, start_at, end_at) ==
    IF ~isAdmin THEN MsgAdminRequired
    ELSE IF title = "" \/ start_at = <<>> \/ end_at = <<>> THEN MsgTitleStartEnd
    ELSE ""

\* createSession; the effect on [activeSessionId] then loads the roster.
createSessionPatch(title, start_at, end_at) ==
    /\ IsPatch
    /\ UNCHANGED <<build, camVars, lastScanAt, now, authed, isAdmin, headshotPath, gg_attendance,
                   attendance, calls, gg_roster>>
    /\ IF createSessionPatchCheck(title, start_at, end_at) # ""
       THEN UNCHANGED <<sessions, activeSessionId, roster>>
       ELSE LET n == Len(sessions) + 1
            IN /\ n <= MaxSessions
               /\ sessions' = << [ id |-> SessionId(n), title |-> title,
                                   start_at |-> start_at, end_at |-> end_at ] >> \o sessions
               /\ activeSessionId' = SessionId(n)
               /\ roster' = { r \in gg_roster : r.session_id = SessionId(n) }

\* addWalkIn, the licence field only (lines 407-452): upsert, then reload.
addWalkIn(walkInLicense) ==
    /\ IsPatch
    /\ isAdmin
    /\ Truthy(activeSessionId)
    /\ normalizeLicensePatch(walkInLicense) # <<>>
    /\ LET lic == normalizeLicensePatch(walkInLicense)
           row == [ session_id |-> activeSessionId, trec_license |-> lic, absent |-> FALSE ]
       IN gg_roster' =
            IF \E r \in gg_roster : r.session_id = activeSessionId /\ r.trec_license = lic
            THEN UpdatePatchRows(gg_roster, activeSessionId, lic, row)
            ELSE gg_roster \cup
                   { [c \in PatchColumns |-> IF c \in DOMAIN row THEN row[c] ELSE null] }
    /\ roster' = { r \in gg_roster' : r.session_id = activeSessionId }
    /\ UNCHANGED <<build, camVars, lastScanAt, now, sessions, activeSessionId, authed, isAdmin,
                   headshotPath, gg_attendance, attendance, calls>>

\* patchRoster(license, patch) (lines 454-466): the update, then the same patch
\* on the admin's copy.
patchRoster(license, patch) ==
    /\ IsPatch
    /\ isAdmin
    /\ Truthy(activeSessionId)
    /\ gg_roster' = UpdatePatchRows(gg_roster, activeSessionId,
                                    normalizeLicensePatch(license), patch)
    /\ roster' = { IF r.session_id = activeSessionId
                      /\ normalizeLicensePatch(r.trec_license) = normalizeLicensePatch(license)
                   THEN [c \in DOMAIN r |-> IF c \in DOMAIN patch THEN patch[c] ELSE r[c]]
                   ELSE r : r \in roster }
    /\ UNCHANGED <<build, camVars, lastScanAt, now, sessions, activeSessionId, authed, isAdmin,
                   headshotPath, gg_attendance, attendance, calls>>

\* The buttons of a row of the admin's table (lines 985-1003): "Manual Check-in"
\* when the row as shown has no checkin_at, "Undo Check-in" otherwise; likewise
\* for the check-out.
patchManualCheckIn(r) ==
    IsPatch /\ r \in roster /\ ~Truthy(r.checkin_at)
    /\ patchRoster(r.trec_license, [ checkin_at |-> isoNow ])

patchUndoCheckIn(r) ==
    IsPatch /\ r \in roster /\ Truthy(r.checkin_at)
    /\ patchRoster(r.trec_license, [ checkin_at |-> null ])

patchManualCheckOut(r) ==
    IsPatch /\ r \in roster /\ ~Truthy(r.checkout_at)
    /\ patchRoster(r.trec_license, [ checkout_at |-> isoNow ])

patchUndoCheckOut(r) ==
    IsPatch /\ r \in roster /\ Truthy(r.checkout_at)
    /\ patchRoster(r.trec_license, [ checkout_at |-> null ])

InitPatch ==
    /\ build = "patch"
    /\ CameraOff
    /\ lastScanAt = 0
    /\ now = HM(8, 25)
    /\ sessions = <<>>
    /\ activeSessionId = ""
    /\ authed \in BOOLEAN
    /\ isAdmin \in { a \in BOOLEAN : a => authed }
    /\ headshotPath = ""
    /\ gg_attendance = {}
    /\ attendance = <<>>
    /\ calls = [c \in CallIds |-> Idle]
    /\ roster = {}
    /\ gg_roster = {}

NextPatch ==
    \/ IsPatch /\ \E p \in PatchPayloads, m \in { "checkin", "checkout" }, lic \in PatchLicenses :
          handleScanPayload(p, m, lic)
    \/ \E t \in Titles, st \in StartLocals \cup { <<>> }, en \in EndLocals \cup { <<>> } :
          createSessionPatch(t, st, en)
    \/ \E lic \in PatchLicenses : addWalkIn(lic)
    \/ IsPatch /\ \E r \in roster : patchManualCheckIn(r)
    \/ IsPatch /\ \E r \in roster : patchUndoCheckIn(r)
    \/ IsPatch /\ \E r \in roster : patchManualCheckOut(r)
    \/ IsPatch /\ \E r \in roster : patchUndoCheckOut(r)

-----------------------------------------------------------------------------
(* Build "portal": the third component of src/src/App.tsx (lines           *)
(* 2902-4084).  Only its session administration is modelled: the admin tab *)
(* creates sessions whose expiry instants are computed from the two        *)
(* datetime-local fields.                                                  *)

IsPortal == build = "portal"

MsgTitleStartEndPortal == "Please provide a session title, start time, and end time."

\* addMinutesISO: setMinutes(getMinutes() + minutes) on a day without a DST change.
addMinutesISO(iso, minutes) == toISOString(getTime(iso) + minutes * MinuteMs)

\* The checks of createSession: the message it returns with, "" when it goes on.
createSessionPortalCheck(sessionTitle, sessionStart, sessionEnd) ==
    IF sessionTitle = "" \/ sessionStart = <<>> \/ sessionEnd = <<>>
    THEN MsgTitleStartEndPortal
    ELSE ""

\* createSession, then loadRecentSessions (newest first).  The button is drawn in
\* the admin tab only.
createSessionPortal(sessionTitle, sessionStart, sessionEnd) ==
    /\ IsPortal
    /\ isAdmin
    /\ UNCHANGED <<build, camVars, lastScanAt, now, authed, isAdmin, headshotPath, gg_attendance,
                   attendance, calls, roster, gg_roster, activeSessionId>>
    /\ IF createSessionPortalCheck(sessionTitle, sessionStart, sessionEnd) # ""
       THEN UNCHANGED sessions
       ELSE LET n == Len(sessions) + 1
                startsISO == toISOString(newDateMs(sessionStart))
                endsISO == toISOString(newDateMs(sessionEnd))
                checkinExpiresISO == addMinutesISO(startsISO, 30)
                checkoutExpiresISO == addMinutesISO(endsISO, 30)
            IN /\ n <= MaxSessions + 1
               /\ sessions' = << [ id |-> SessionId(n),
                                   title |-> sessionTitle,
                                   starts_at |-> startsISO,
                                   ends_at |-> endsISO,
                                   checkin_expires_at |-> checkinExpiresISO,
                                   checkout_expires_at |-> checkoutExpiresISO,
                                   checkin_code |-> randCode(n, "checkin"),
                                   checkout_code |-> randCode(n, "checkout") ] >>
                              \o sessions

InitPortal ==
    /\ build = "portal"
    /\ CameraOff
    /\ lastScanAt = 0
    /\ now = HM(8, 25)
    /\ sessions = <<>>
    /\ activeSessionId = ""
    /\ authed \in BOOLEAN
    /\ isAdmin \in { a \in BOOLEAN : a => authed }
    /\ headshotPath = ""
    /\ gg_attendance = {}
    /\ attendance = <<>>
    /\ calls = [c \in CallIds |-> Idle]
    /\ roster = {}
    /\ gg_roster = {}

NextPortal ==
    \E t \in Titles, st \in StartLocals \cup { <<>> }, en \in EndLocals \cup { <<>> } :
        createSessionPortal(t, st, en)

-----------------------------------------------------------------------------
(* The camera scanners of builds "roster" (src/src/App.tsx 2006-2144) and  *)
(* "patch" (src/unnamed/part_004 485-613), with the handler of a decoded   *)
(* frame suspended at each await.  `calls` holds the handlers of the one   *)
(* client that are under way.  A function that the animation-frame loop    *)
(* calls again and again is the closure of the render in which the camera  *)
(* was started: the React state it reads is the state of that render.      *)

\* startCamera of build "roster" (lines 2007-2025): tickScan of this render is
\* scheduled.
startCamera ==
    /\ IsRoster
    /\ rafRef = NoCallback
    /\ rafRef' = [ pending |-> TRUE, scanBusy |-> scanBusy ]
    /\ UNCHANGED <<build, lastScanAt, now, sessions, activeSessionId, authed, isAdmin,
                   headshotPath, gg_attendance, attendance, calls, roster, gg_roster,
                   scanBusy, scanning, scanTimer, streamRef, qrValue, qrInView>>

\* stopCamera (lines 2027-2039)
stopCamera ==
    /\ rafRef.pending
    /\ rafRef' = NoCallback
    /\ UNCHANGED <<build, lastScanAt, now, sessions, activeSessionId, authed, isAdmin,
                   headshotPath, gg_attendance, attendance, calls, roster, gg_roster,
                   scanBusy, scanning, scanTimer, streamRef, qrValue, qrInView>>

\* What handleScan leaves in `calls` when it reaches its first await or its end
\* (lines 2073-2128): nothing when nobody is logged in, the lockout timer when the
\* code is refused, the upsert request otherwise.
handleScanCall(raw) ==
    IF ~authed THEN Idle
    ELSE IF ~Recognized(raw) \/ normalizeLicenseRoster(MetaLicense) = <<>>
    THEN [ pc |-> "lockout" ]
    ELSE [ pc |-> "upsert",
           session_id |-> JSON_parse(PayloadText(raw)).session_id,
           action |-> JSON_parse(PayloadText(raw)).action,
           trec_license |-> normalizeLicenseRoster(MetaLicense),
           stamp |-> isoNow ]

\* tickScan on a frame in which jsQR finds the code `raw` (lines 2041-2071): the
\* loop goes on, and handleScan is called unless the scanBusy of the closure is
\* set; handleScan sets the state scanBusy once it has passed the login test.
tickScan(c, raw) ==
    /\ IsRoster
    /\ rafRef.pending
    /\ calls[c] = Idle
    /\ \A d \in CallIds : d < c => calls[d] # Idle
    /\ IF rafRef.scanBusy
       THEN UNCHANGED <<calls, scanBusy>>
       ELSE /\ calls' = [calls EXCEPT ![c] = handleScanCall(raw)]
            /\ scanBusy' = (scanBusy \/ authed)
    /\ UNCHANGED <<build, lastScanAt, now, sessions, activeSessionId, authed, isAdmin,
                   headshotPath, gg_attendance, attendance, roster, gg_roster,
                   rafRef, scanning, scanTimer, streamRef, qrValue, qrInView>>

\* The upsert of handleScan returns (line 2128); its result is not looked at.
handleScanUpsertReturns(c) ==
    /\ IsRoster
    /\ calls[c].pc = "upsert"
    /\ gg_roster' = UpsertRoster(gg_roster,
                       [ session_id |-> calls[c].session_id,
                         trec_license |-> calls[c].trec_license,
                         status |-> "present", absent |-> FALSE ])
    /\ calls' = [calls EXCEPT ![c].pc = "update"]
    /\ UNCHANGED <<build, camVars, lastScanAt, now, sessions, activeSessionId, authed, isAdmin,
                   headshotPath, gg_attendance, attendance, roster>>

\* updateRosterRow returns (lines 2130-2136), then `finally` sets the timer of
\* the lockout.
handleScanUpdateReturns(c) ==
    /\ IsRoster
    /\ calls[c].pc = "update"
    /\ gg_roster' = UpdateRows(gg_roster, calls[c].session_id, calls[c].trec_license,
                       IF calls[c].action = "checkin"
                       THEN [ checkin_at |-> calls[c].stamp, status |-> "present",
                              absent |-> FALSE ]
                       ELSE [ checkout_at |-> calls[c].stamp ])
    /\ calls' = [calls EXCEPT ![c] = [ pc |-> "lockout" ]]
    /\ UNCHANGED <<build, camVars, lastScanAt, now, sessions, activeSessionId, authed, isAdmin,
                   headshotPath, gg_attendance, attendance, roster>>

\* The timer of line 2141 fires: setScanBusy(false).
lockoutEnds(c) ==
    /\ IsRoster
    /\ calls[c].pc = "lockout"
    /\ scanBusy' = FALSE
    /\ calls' = [calls EXCEPT ![c] = Idle]
    /\ UNCHANGED <<build, lastScanAt, now, sessions, activeSessionId, authed, isAdmin,
                   headshotPath, gg_attendance, attendance, roster, gg_roster,
                   rafRef, scanning, scanTimer, streamRef, qrValue, qrInView>>

\* startCamera of build "patch" (lines 485-509): scanLoop is scheduled.
startCameraPatch ==
    /\ IsPatch
    /\ rafRef = NoCallback
    /\ rafRef' = [ pending |-> TRUE, scanBusy |-> FALSE ]
    /\ UNCHANGED <<build, lastScanAt, now, sessions, activeSessionId, authed, isAdmin,
                   headshotPath, gg_attendance, attendance, calls, roster, gg_roster,
                   scanBusy, scanning, scanTimer, streamRef, qrValue, qrInView>>

\* scanLoop on a frame in which jsQR finds `payload` (lines 590-613), and
\* handleScanPayload up to its update request (lines 522-574).
scanLoop(c, payload, scanMode, trecLicense) ==
    /\ IsPatch
    /\ rafRef.pending
    /\ calls[c] = Idle
    /\ \A d \in CallIds : d < c => calls[d] # Idle
    /\ IF now - lastScanAt < 1250
       THEN UNCHANGED <<lastScanAt, calls>>
       ELSE /\ lastScanAt' = now
            /\ calls' = [calls EXCEPT ![c] =
                  IF ScanToast(payload, scanMode, trecLicense)
                        \notin { ToastCheckedIn, ToastCheckedOut }
                  THEN Idle
                  ELSE [ pc |-> "update",
                         session_id |-> ParsedPayload(payload, scanMode).sessionId,
                         action |-> ParsedPayload(payload, scanMode).mode,
                         trec_license |-> normalizeLicensePatch(trecLicense),
                         stamp |-> isoNow ]]
    /\ UNCHANGED <<build, camVars, now, sessions, activeSessionId, authed, isAdmin,
                   headshotPath, gg_attendance, attendance, roster, gg_roster>>

\* The update of handleScanPayload returns (lines 570-587).
handleScanPayloadReturns(c) ==
    /\ IsPatch
    /\ calls[c].pc = "update"
    /\ gg_roster' = UpdatePatchRows(gg_roster, calls[c].session_id, calls[c].trec_license,
                       IF calls[c].action = "checkin"
                       THEN [ checkin_at |-> calls[c].stamp ]
                       ELSE [ checkout_at |-> calls[c].stamp ])
    /\ calls' = [calls EXCEPT ![c] = Idle]
    /\ UNCHANGED <<build, camVars, lastScanAt, now, sessions, activeSessionId, authed, isAdmin,
                   headshotPath, gg_attendance, attendance, roster>>

\* One student with the camera of build "roster" or of build "patch".
InitCamera == InitRoster \/ InitPatch

NextCamera ==
    \/ Tick
    \/ startCamera
    \/ stopCamera
    \/ IsRoster /\ \E c \in CallIds, raw \in RosterScans : tickScan(c, raw)
    \/ \E c \in CallIds : handleScanUpsertReturns(c)
    \/ \E c \in CallIds : handleScanUpdateReturns(c)
    \/ \E c \in CallIds : lockoutEnds(c)
    \/ startCameraPatch
    \/ IsPatch /\ \E c \in CallIds, p \in PatchPayloads, m \in { "checkin", "checkout" },
                     lic \in PatchLicenses : scanLoop(c, p, m, lic)
    \/ \E c \in CallIds : handleScanPayloadReturns(c)

SpecCamera == InitCamera /\ [][NextCamera]_vars

-----------------------------------------------------------------------------
(* The scanner of build "portal" (src/src/App.tsx 3259-3324): startScan    *)
(* asks for the camera and then polls the BarcodeDetector from a timer.    *)
(* The function `tick` is created inside startScan and reads the           *)
(* `scanning` of the render in which startScan was called.                 *)

\* The text of the QR code on display.
QrRaw == "QR"

\* The "Start Scan" button (line 3799, drawn while `scanning` is false): startScan
\* up to the await of getUserMedia (lines 3260-3273), in a browser that has a
\* BarcodeDetector.
startScan ==
    /\ IsPortal
    /\ authed
    /\ ~scanning
    /\ streamRef = null
    /\ scanning' = TRUE
    /\ streamRef' = "pending"
    /\ scanTimer' = [ pending |-> FALSE, scanning |-> scanning ]
    /\ UNCHANGED <<build, lastScanAt, now, sessions, activeSessionId, authed, isAdmin,
                   headshotPath, gg_attendance, attendance, calls, roster, gg_roster,
                   scanBusy, rafRef, qrValue, qrInView>>

\* getUserMedia returns the stream: the video plays and the first tick is
\* scheduled (lines 3274-3304).
startScanStream ==
    /\ IsPortal
    /\ streamRef = "pending"
    /\ streamRef' = "stream"
    /\ scanTimer' = [ scanTimer EXCEPT !.pending = TRUE ]
    /\ UNCHANGED <<build, lastScanAt, now, sessions, activeSessionId, authed, isAdmin,
                   headshotPath, gg_attendance, attendance, calls, roster, gg_roster,
                   scanBusy, rafRef, scanning, qrValue, qrInView>>

\* getUserMedia is refused (lines 3305-3308).
startScanFails ==
    /\ IsPortal
    /\ streamRef = "pending"
    /\ streamRef' = null
    /\ scanning' = FALSE
    /\ scanTimer' = NoCallback
    /\ UNCHANGED <<build, lastScanAt, now, sessions, activeSessionId, authed, isAdmin,
                   headshotPath, gg_attendance, attendance, calls, roster, gg_roster,
                   scanBusy, rafRef, qrValue, qrInView>>

\* The timer fires: tick (lines 3284-3302).  It returns at once when the
\* `scanning` of its closure is false; otherwise a detected code is stored and
\* stopScan is called, and without a code the timer is set again.
tick ==
    /\ IsPortal
    /\ scanTimer.pending
    /\ IF ~scanTimer.scanning
       THEN /\ scanTimer' = [ scanTimer EXCEPT !.pending = FALSE ]
            /\ UNCHANGED <<scanning, streamRef, qrValue>>
       ELSE IF qrInView
       THEN /\ qrValue' = QrRaw
            /\ scanning' = FALSE
            /\ scanTimer' = NoCallback
            /\ streamRef' = null
       ELSE UNCHANGED <<scanning, scanTimer, streamRef, qrValue>>
    /\ UNCHANGED <<build, lastScanAt, now, sessions, activeSessionId, authed, isAdmin,
                   headshotPath, gg_attendance, attendance, calls, roster, gg_roster,
                   scanBusy, rafRef, qrInView>>

\* The "Stop Scan" button (drawn while `scanning` is true): stopScan (lines
\* 3311-3324).  A request for the camera that is still pending is not withdrawn.
stopScan ==
    /\ IsPortal
    /\ scanning
    /\ scanning' = FALSE
    /\ scanTimer' = IF streamRef = "pending" THEN scanTimer ELSE NoCallback
    /\ streamRef' = IF streamRef = "stream" THEN null ELSE streamRef
    /\ UNCHANGED <<build, lastScanAt, now, sessions, activeSessionId, authed, isAdmin,
                   headshotPath, gg_attendance, attendance, calls, roster, gg_roster,
                   scanBusy, rafRef, qrValue, qrInView>>

\* The instructor puts the QR code in front of the camera, where it stays.
showQr ==
    /\ IsPortal
    /\ ~qrInView
    /\ qrInView' = TRUE
    /\ UNCHANGED <<build, lastScanAt, now, sessions, activeSessionId, authed, isAdmin,
                   headshotPath, gg_attendance, attendance, calls, roster, gg_roster,
                   scanBusy, rafRef, scanning, scanTimer, streamRef, qrValue>>

NextScan ==
    \/ Tick
    \/ startScan
    \/ startScanStream
    \/ startScanFails
    \/ tick
    \/ stopScan
    \/ showQr

\* The timer fires when it is due.
SpecScan == InitPortal /\ [][NextScan]_vars /\ WF_vars(tick)

-----------------------------------------------------------------------------
(* Properties of build "db".                                               *)

\* The client can submit: a session is selected, the user is logged in and has
\* uploaded a headshot.
CanSubmit == HasActiveSession /\ authed /\ Truthy(headshotPath)

ValidLicenseInputs == { v \in LicenseInputs : isValidLicense(normalizeLicense(v)) }

\* The QR texts on display for session s.
CheckinQr(s) == qrPayload("checkin", s.id, s.checkinCode, s.checkinExpiresAt)
CheckoutQr(s) == qrPayload("checkout", s.id, s.checkoutCode, s.checkoutExpiresAt)

\* Call c has left submitScan's checks and asked for the attendance row.
Accepted(c, action, method) ==
    /\ calls[c].pc = "select"
    /\ calls[c].action = action
    /\ calls[c].method = method

\* The attendance state of (sid, lic) in a table.
CheckedIn(table, sid, lic) ==
    HasRow(table, sid, lic) /\ Truthy(RowOf(table, sid, lic).checkin_at)
CheckedOut(table, sid, lic) ==
    HasRow(table, sid, lic) /\ Truthy(RowOf(table, sid, lic).checkout_at)

\* The row a select for call c returns now, as submitScan reads it.
BaseRowOf(c) ==
    IF HasRow(gg_attendance, calls[c].session_id, calls[c].trec_license)
    THEN RowOf(gg_attendance, calls[c].session_id, calls[c].trec_license)
    ELSE [ session_id |-> calls[c].session_id, trec_license |-> calls[c].trec_license ]

\* C4 (db): when the attendance row comes back for a check-in, a student who is
\* not checked in gets checkin_at = the current instant and method_checkin = the
\* method of the call, and the write stores exactly these; a student who is
\* checked in is refused with "Already checked in." and the table is left alone.
C4_CheckInDb ==
    [][IsDb =>
        /\ (calls[1].pc = "select" /\ calls[1].action = "checkin" /\ selectReturns(1)) =>
              IF CheckedIn(gg_attendance, calls[1].session_id, calls[1].trec_license)
              THEN /\ TransitionCheck(BaseRowOf(1), "checkin") = MsgAlreadyCheckedIn
                   /\ calls'[1] = Idle
                   /\ gg_attendance' = gg_attendance
              ELSE /\ calls'[1].pc = "upsert"
                   /\ calls'[1].row.checkin_at = toISOString(now)
                   /\ calls'[1].row.method_checkin = calls[1].method
        /\ (calls[1].pc = "upsert" /\ calls[1].action = "checkin" /\ upsertReturns(1)) =>
              LET sid == calls[1].session_id
                  lic == calls[1].trec_license
              IN /\ ~CheckedIn(gg_attendance, sid, lic)
                 /\ RowOf(gg_attendance', sid, lic).checkin_at = calls[1].row.checkin_at
                 /\ RowOf(gg_attendance', sid, lic).method_checkin = calls[1].method
                 /\ RowOf(gg_attendance', sid, lic).checkout_at = null
      ]_vars

\* A manual check-in was recorded at 08:45, and a second check-in waits for its row.
C4_Witness ==
    /\ IsDb
    /\ Accepted(1, "checkin", "scan")
    /\ \E r \in gg_attendance :
          /\ r.session_id = calls[1].session_id
          /\ r.trec_license = calls[1].trec_license
          /\ r.checkin_at = toISOString(HM(8, 45))
          /\ r.method_checkin = "manual"

\* C5 (db): when the attendance row comes back for a check-out, a student who is
\* checked in and not checked out gets checkout_at = the current instant and
\* method_checkout = the method of the call, the check-in being kept; one who is
\* not checked in is refused with "Check-in required before check-out.", one
\* who is checked out with "Already checked out.", the table being left alone.
C5_CheckOutDb ==
    [][IsDb =>
        /\ (calls[1].pc = "select" /\ calls[1].action = "checkout" /\ selectReturns(1)) =>
              LET sid == calls[1].session_id
                  lic == calls[1].trec_license
              IN IF ~CheckedIn(gg_attendance, sid, lic)
                 THEN /\ TransitionCheck(BaseRowOf(1), "checkout") = MsgCheckinRequired
                      /\ calls'[1] = Idle
                      /\ gg_attendance' = gg_attendance
                 ELSE IF CheckedOut(gg_attendance, sid, lic)
                 THEN /\ TransitionCheck(BaseRowOf(1), "checkout") = MsgAlreadyCheckedOut
                      /\ calls'[1] = Idle
                      /\ gg_attendance' = gg_attendance
                 ELSE /\ calls'[1].pc = "upsert"
                      /\ calls'[1].row.checkout_at = toISOString(now)
                      /\ calls'[1].row.method_checkout = calls[1].method
        /\ (calls[1].pc = "upsert" /\ calls[1].action = "checkout" /\ upsertReturns(1)) =>
              LET sid == calls[1].session_id
                  lic == calls[1].trec_license
                  old == RowOf(gg_attendance, sid, lic)
                  new == RowOf(gg_attendance', sid, lic)
              IN /\ CheckedIn(gg_attendance, sid, lic)
                 /\ ~CheckedOut(gg_attendance, sid, lic)
                 /\ new.checkout_at = calls[1].row.checkout_at
                 /\ new.method_checkout = calls[1].method
                 /\ new.checkin_at = old.checkin_at
                 /\ new.method_checkin = old.method_checkin
      ]_vars

\* A scanned check-out of 16:00 was recorded after a check-in, and a further
\* check-out waits for its row.
C5_Witness ==
    /\ IsDb
    /\ calls[1].pc = "select"
    /\ calls[1].action = "checkout"
    /\ \E r \in gg_attendance :
          /\ r.session_id = calls[1].session_id
          /\ r.trec_license = calls[1].trec_license
          /\ Truthy(r.checkin_at)
          /\ r.checkout_at = toISOString(HM(16, 0))
          /\ r.method_checkout = "scan"

\* What the buttons of build "local" can submit: <<method, actionOverride, scanText>>.
LocalSubmissions ==
    { <<"scan", undefined, text>> : text \in ScanTexts }
    \cup { <<"manual", a, Garbage>> : a \in { "checkin", "checkout" } }

\* The record of (sid, lic) in the array `attendance`, if there is one.
HasRecord(sid, lic) ==
    \E i \in 1..Len(attendance) :
        attendance[i].session_id = sid /\ attendance[i].trec_license = lic
RecordOf(arr, sid, lic) ==
    arr[CHOOSE i \in 1..Len(arr) : arr[i].session_id = sid /\ arr[i].trec_license = lic]

\* C4 (local): a check-in that has passed submitScan's checks gives a student
\* without checkin_at the record checkin_at = the current instant,
\* method_checkin = the method; for a student with checkin_at it ends with
\* "Already checked in (...)" and `attendance` is left alone.
C4_CheckInLocal ==
    (IsLocal /\ HasActiveSession) =>
        \A sub \in LocalSubmissions, lic \in LicenseInputs :
          (/\ sub[1] = "manual" => isAdmin
           /\ submitScanLocalCheck(sub[1], sub[2], lic, sub[3]) = ""
           /\ ActionLocal(sub[2], sub[3]) = "checkin")
          => LET sid == activeSession.id
                 key == normalizeLicense(lic)
                 after == AttendanceOf(sub[1], sub[2], lic, sub[3])
                 msg == OutcomeLocal(sub[1], sub[2], lic, sub[3])
             IN IF HasRecord(sid, key)
                   /\ Truthy(Prop(RecordOf(attendance, sid, key), "checkin_at"))
                THEN /\ after = attendance
                     /\ msg = MsgAlreadyCheckedInAt(RecordOf(attendance, sid, key).checkin_at)
                ELSE /\ RecordOf(after, sid, key).checkin_at = toISOString(now)
                     /\ RecordOf(after, sid, key).method_checkin = sub[1]
                     /\ msg = SuccessMsg("checkin", sub[1])

\* C4: a check-in in state NotCheckedIn sets checkin_at to the current instant and
\* method_checkin to the method of the submission; in any other state it is
\* refused as already checked in and nothing is written (builds "db" and
\* "local").
C4_CheckIn == C4_CheckInDb /\ []C4_CheckInLocal

\* C5 (local): a check-out that has passed submitScan's checks gives a student
\* with checkin_at and without checkout_at the record checkout_at = the current
\* instant, method_checkout = the method, the check-in being kept; without
\* checkin_at it ends with "Check-in required before check-out.", with
\* checkout_at with "Already checked out (...)", and no record that was there
\* changes.
C5_CheckOutLocal ==
    (IsLocal /\ HasActiveSession) =>
        \A sub \in LocalSubmissions, lic \in LicenseInputs :
          (/\ sub[1] = "manual" => isAdmin
           /\ submitScanLocalCheck(sub[1], sub[2], lic, sub[3]) = ""
           /\ ActionLocal(sub[2], sub[3]) = "checkout")
          => LET sid == activeSession.id
                 key == normalizeLicense(lic)
                 after == AttendanceOf(sub[1], sub[2], lic, sub[3])
                 msg == OutcomeLocal(sub[1], sub[2], lic, sub[3])
                 old == IF HasRecord(sid, key) THEN RecordOf(attendance, sid, key)
                        ELSE [ session_id |-> sid, trec_license |-> key ]
                 new == RecordOf(after, sid, key)
             IN IF ~Truthy(Prop(old, "checkin_at"))
                THEN msg = MsgCheckinRequired /\ SubSeq(after, 1, Len(attendance)) = attendance
                ELSE IF Truthy(Prop(old, "checkout_at"))
                THEN msg = MsgAlreadyCheckedOutAt(old.checkout_at) /\ after = attendance
                ELSE /\ msg = SuccessMsg("checkout", sub[1])
                     /\ new.checkout_at = toISOString(now)
                     /\ new.method_checkout = sub[1]
                     /\ new.checkin_at = old.checkin_at
                     /\ new.method_checkin = old.method_checkin

\* C5: a check-out in state CheckedIn sets checkout_at to the current instant and
\* method_checkout to the method; in state NotCheckedIn it is refused as
\* check-in required, in state CheckedOut as already checked out (builds "db"
\* and "local").
C5_CheckOut == C5_CheckOutDb /\ []C5_CheckOutLocal

\* The timestamps of every attendance record, whatever build keeps it.
Stamps ==
    { <<r.checkin_at, r.checkout_at>> : r \in gg_attendance }
    \cup { <<Prop(attendance[i], "checkin_at"), Prop(attendance[i], "checkout_at")>> :
              i \in 1..(IF IsLocal THEN Len(attendance) ELSE 0) }
    \cup { <<r.checkin_at, r.checkout_at>> : r \in gg_roster }

\* C1: in every reachable state, a record with checkout_at set has checkin_at set.
C1_CheckoutImpliesCheckin ==
    \A st \in Stamps : Truthy(st[2]) => Truthy(st[1])

\* C2: of two submissions of one action for one student and session that are
\* under way together, at most one is recorded: a write that succeeds never
\* lands on a row that already holds the timestamp of its action.
C2_NoDoubleSuccess ==
    [][\A c \in CallIds :
         (calls[c].pc = "upsert" /\ upsertReturns(c))
         => IF calls[c].action = "checkin"
            THEN ~CheckedIn(gg_attendance, calls[c].session_id, calls[c].trec_license)
            ELSE ~CheckedOut(gg_attendance, calls[c].session_id, calls[c].trec_license)
      ]_vars

\* A timestamp of record `old` is kept by record `new`, or cleared where an undo
\* exists.
KeepsStamps(old, new, undo) ==
    /\ Truthy(Prop(old, "checkin_at")) =>
          \/ Prop(new, "checkin_at") = old.checkin_at
          \/ undo /\ ~Truthy(Prop(new, "checkin_at"))
    /\ Truthy(Prop(old, "checkout_at")) =>
          \/ Prop(new, "checkout_at") = old.checkout_at
          \/ undo /\ ~Truthy(Prop(new, "checkout_at"))

\* C3: a timestamp that is set is never overwritten with another instant; it
\* changes only by being cleared, which only the undo buttons of build "roster"
\* do.
C3_SetOnce ==
    [][/\ \A old \in gg_attendance, new \in gg_attendance' :
            (old.session_id = new.session_id /\ old.trec_license = new.trec_license)
            => KeepsStamps(old, new, FALSE)
       /\ IsLocal => \A i \in 1..Len(attendance) :
                        /\ i <= Len(attendance')
                        /\ KeepsStamps(attendance[i], attendance'[i], FALSE)
       /\ \A old \in gg_roster, new \in gg_roster' :
            (old.session_id = new.session_id /\ old.trec_license = new.trec_license)
            => KeepsStamps(old, new, TRUE)
      ]_vars

\* C6: a submission that is refused leaves `attendance` as it was: no record
\* changes and none is added (build "local").
C6_RejectedLeavesState ==
    (IsLocal /\ HasActiveSession) =>
        \A sub \in LocalSubmissions, lic \in LicenseInputs :
          (/\ sub[1] = "manual" => isAdmin
           /\ OutcomeLocal(sub[1], sub[2], lic, sub[3])
                 # SuccessMsg(ActionLocal(sub[2], sub[3]), sub[1]))
          => AttendanceOf(sub[1], sub[2], lic, sub[3]) = attendance

\* The code the session holds for an action.
CodeFor(session, action) ==
    IF action = "checkin" THEN session.checkinCode ELSE session.checkoutCode

\* The scanned texts that name the active session and a check-in or check-out
\* but carry another code than the session's for that action.
WrongCodeTexts ==
    { text \in ScanTexts :
        /\ text.wellFormed
        /\ Prop(JSON_parse(text), "sessionId") = activeSession.id
        /\ Prop(JSON_parse(text), "action") \in { "checkin", "checkout" }
        /\ Truthy(Prop(JSON_parse(text), "code"))
        /\ Prop(JSON_parse(text), "code")
              # CodeFor(activeSession, Prop(JSON_parse(text), "action")) }

\* C7: a scan whose code differs from the active session's code for its action
\* is refused, in build "db" and in build "local", so nothing is written.
C7_CodeMustMatch ==
    /\ (IsDb /\ HasActiveSession) =>
          \A lic \in LicenseInputs, text \in WrongCodeTexts :
              submitScanCheck(undefined, lic, text) # ""
    /\ (IsLocal /\ HasActiveSession) =>
          \A lic \in LicenseInputs, text \in WrongCodeTexts :
              /\ submitScanLocalCheck("scan", undefined, lic, text) # ""
              /\ AttendanceOf("scan", undefined, lic, text) = attendance

\* The scanned texts whose sessionId member is not the id of the active session.
OtherSessionTexts ==
    { text \in ScanTexts :
        /\ text.wellFormed
        /\ "sessionId" \in DOMAIN JSON_parse(text)
        /\ JSON_parse(text)["sessionId"] # activeSession.id }

\* C8: a scan whose sessionId is not the active session's id is refused with
\* "That code is for a different class session." whatever its code and the
\* instant, once the checks on the user that come first are passed, and nothing
\* is written (builds "db" and "local").
C8_WrongSession ==
    /\ (IsDb /\ CanSubmit) =>
          \A lic \in ValidLicenseInputs, text \in OtherSessionTexts :
              submitScanCheck(undefined, lic, text) = MsgWrongSession
    /\ (IsLocal /\ HasActiveSession /\ authed) =>
          \A lic \in { v \in LicenseInputs : isValidLicenseLocal(v) /\ rosterContains(v) },
             text \in OtherSessionTexts :
              /\ submitScanLocalCheck("scan", undefined, lic, text) = MsgWrongSession
              /\ AttendanceOf("scan", undefined, lic, text) = attendance

\* The scans of `action` pass submitScan's checks only while opens <= now <= closes:
\* whatever else the text holds it is refused outside, and the text on display is
\* refused with `early` before opens, with `late` after closes, and goes on in
\* between, both ends included.
WindowHolds(action, qr, opens, closes, early, late) ==
    \A lic \in ValidLicenseInputs :
        /\ \A text \in ScanTexts :
              (/\ text.wellFormed
               /\ Prop(JSON_parse(text), "action") = action
               /\ now < opens \/ now > closes)
              => submitScanCheck(undefined, lic, text) # ""
        /\ LET msg == submitScanCheck(undefined, lic, qr)
           IN /\ now < opens => msg = early
              /\ now > closes => msg = late
              /\ (opens <= now /\ now <= closes) => msg = ""

\* C9: a scanned check-in is accepted only while now lies in the check-in window,
\* from 30 minutes before the session's start to 30 minutes after it, and a
\* scanned check-out only while now lies in the check-out window, from 60 minutes
\* before the session's end to 60 minutes after it, both ends included; before
\* the opening the answer is "... is not open yet.", after the closing
\* "... has closed for today." (build "db").
C9_CheckinWindow ==
    (IsDb /\ CanSubmit) =>
        LET startMs == getTime(activeSession.startsAt)
            endMs == getTime(activeSession.endsAt)
        IN /\ MsgCheckinNotOpen # MsgCheckinClosed
           /\ MsgCheckoutNotOpen # MsgCheckoutClosed
           /\ WindowHolds("checkin", CheckinQr(activeSession),
                          startMs - 30 * MinuteMs, startMs + 30 * MinuteMs,
                          MsgCheckinNotOpen, MsgCheckinClosed)
           /\ WindowHolds("checkout", CheckoutQr(activeSession),
                          endMs - 60 * MinuteMs, endMs + 60 * MinuteMs,
                          MsgCheckoutNotOpen, MsgCheckoutClosed)

\* At the instant check-in opens a scanned check-in has been accepted.
C9_Witness ==
    /\ IsDb
    /\ HasActiveSession
    /\ now = getTime(activeSession.startsAt) - 30 * MinuteMs
    /\ Accepted(1, "checkin", "scan")

\* The session of scenario A is the active one: 09:00 to 17:00.
ScenarioA ==
    /\ IsDb
    /\ CanSubmit
    /\ getTime(activeSession.startsAt) = HM(9, 0)
    /\ getTime(activeSession.endsAt) = HM(17, 0)

\* C10 as the scenario states it: for the 09:00-17:00 session a scanned check-in
\* at 08:35 is refused as not yet open, and one at 08:45 is accepted.
C10_ScenarioAAsStated ==
    ScenarioA =>
        \A lic \in ValidLicenseInputs :
            LET msg == submitScanCheck(undefined, lic, CheckinQr(activeSession))
            IN /\ now = HM(8, 35) => msg = MsgCheckinNotOpen
               /\ now = HM(8, 45) => msg = ""

\* C10: for the 09:00-17:00 session check-in opens at 08:30: a scanned check-in
\* at 08:25, five minutes before, is refused as not yet open, and one at 08:35 or
\* at 08:45 is accepted.
C10_ScenarioA ==
    ScenarioA =>
        \A lic \in ValidLicenseInputs :
            LET msg == submitScanCheck(undefined, lic, CheckinQr(activeSession))
            IN /\ now = HM(8, 25) => msg = MsgCheckinNotOpen
               /\ now \in { HM(8, 35), HM(8, 45) } => msg = ""

\* The scan of 08:45 has been recorded as the student's check-in.
C10_Witness ==
    /\ ScenarioA
    /\ now = HM(8, 45)
    /\ \E r \in gg_attendance :
          /\ r.session_id = activeSession.id
          /\ r.checkin_at = toISOString(HM(8, 45))
          /\ r.method_checkin = "scan"

\* The licences build "local" takes as valid.
ValidLicenseInputsLocal == { v \in LicenseInputs : isValidLicenseLocal(normalizeLicense(v)) }

\* C11: a manual check-in or check-out by an admin passes every check of
\* submitScan at any instant and whether or not the student is on the roster, so
\* that only the state of the student's record decides: in build "local" a
\* student without checkin_at gets checkin_at = now, a checked-in student without
\* checkout_at gets checkout_at = now (builds "db" and "local").
C11_ManualBypass ==
    /\ (IsDb /\ CanSubmit /\ isAdmin) =>
          \A lic \in ValidLicenseInputs, a \in { "checkin", "checkout" } :
              submitScanCheck(a, lic, Garbage) = ""
    /\ (IsLocal /\ HasActiveSession /\ isAdmin) =>
          \A lic \in ValidLicenseInputsLocal, a \in { "checkin", "checkout" } :
              LET sid == activeSession.id
                  key == normalizeLicense(lic)
                  has == HasRecord(sid, key)
                  in_ == has /\ Truthy(Prop(RecordOf(attendance, sid, key), "checkin_at"))
                  out == has /\ Truthy(Prop(RecordOf(attendance, sid, key), "checkout_at"))
                  after == AttendanceOf("manual", a, lic, Garbage)
                  msg == OutcomeLocal("manual", a, lic, Garbage)
              IN /\ submitScanLocalCheck("manual", a, lic, Garbage) = ""
                 /\ (a = "checkin" /\ ~in_) =>
                       /\ RecordOf(after, sid, key).checkin_at = toISOString(now)
                       /\ msg = MsgManualCheckin
                 /\ (a = "checkout" /\ in_ /\ ~out) =>
                       /\ RecordOf(after, sid, key).checkout_at = toISOString(now)
                       /\ msg = MsgManualCheckout

\* After check-in has closed, when the QR text on display is refused with
\* "Check-in has closed for today.", an admin's manual check-in of that instant
\* is on record.
C11_Witness ==
    /\ IsDb
    /\ CanSubmit
    /\ isAdmin
    /\ now > getTime(activeSession.startsAt) + 30 * MinuteMs
    /\ \A lic \in ValidLicenseInputs :
          submitScanCheck(undefined, lic, CheckinQr(activeSession)) = MsgCheckinClosed
    /\ \E r \in gg_attendance :
          /\ r.session_id = activeSession.id
          /\ r.checkin_at = toISOString(now)
          /\ r.method_checkin = "manual"

\* C12: a scan by a logged-in student whose licence is not on the roster of the
\* session is refused as not on the roster, reports no success and records no
\* timestamp: build "local" answers "That TREC license number is not on the paid
\* roster for this class session." and leaves `attendance` alone; builds
\* "roster" and "patch" leave gg_roster alone and show no success.
C12_NotOnRoster ==
    /\ (IsLocal /\ HasActiveSession /\ authed) =>
          \A lic \in ValidLicenseInputsLocal, text \in ScanTexts :
              ~rosterContains(lic) =>
                  /\ OutcomeLocal("scan", undefined, lic, text) = MsgNotOnRoster
                  /\ AttendanceOf("scan", undefined, lic, text) = attendance
    /\ (IsRoster /\ authed) =>
          \A raw \in RosterScans :
              LET payload == JSON_parse(PayloadText(raw))
                  lic == normalizeLicenseRoster(MetaLicense)
              IN (/\ Recognized(raw)
                  /\ lic # <<>>
                  /\ ~\E r \in gg_roster :
                        r.session_id = payload.session_id /\ r.trec_license = lic)
                 => RosterAfterScan(gg_roster, payload.session_id, payload.action,
                                    lic, isoNow) = gg_roster
    /\ (IsPatch /\ authed) =>
          \A p \in PatchPayloads, m \in { "checkin", "checkout" }, l \in PatchLicenses :
              LET parsed == ParsedPayload(p, m)
                  lic == normalizeLicensePatch(l)
              IN (/\ parsed.sessionId # ""
                  /\ lic # <<>>
                  /\ ~\E r \in gg_roster :
                        r.session_id = parsed.sessionId /\ r.trec_license = lic)
                 => /\ ScanToast(p, m, l) \notin { ToastCheckedIn, ToastCheckedOut }
                    /\ RosterAfterPayload(p, m, l) = gg_roster

\* C13: a check-in or check-out with method "manual" is on record only when the
\* caller is an admin: while the user is no admin, no attendance record carries
\* the method "manual" (builds "db" and "local").
C13_ManualOnlyAdmin ==
    ~isAdmin =>
        /\ \A r \in gg_attendance :
              r.method_checkin # "manual" /\ r.method_checkout # "manual"
        /\ IsLocal => \A i \in 1..Len(attendance) :
                         /\ Prop(attendance[i], "method_checkin") # "manual"
                         /\ Prop(attendance[i], "method_checkout") # "manual"

\* The rule a message of submitScan stands for.
RuleOf(msg) ==
    IF msg \in { MsgInvalidQrData, MsgInvalidQrFormat } THEN "MalformedPayload"
    ELSE IF msg = MsgWrongSession THEN "WrongSession"
    ELSE IF msg = MsgUnknownAction THEN "UnknownAction"
    ELSE IF msg \in { MsgInvalidCheckinCode, MsgInvalidCheckoutCode } THEN "InvalidCode"
    ELSE IF msg \in { MsgCheckinNotOpen, MsgCheckinClosed, MsgCheckoutNotOpen,
                      MsgCheckoutClosed, MsgExpired } THEN "WindowClosed"
    ELSE IF msg = MsgNotOnRoster THEN "NotOnRoster"
    ELSE "none"

RuleOrder ==
    << "MalformedPayload", "WrongSession", "UnknownAction", "InvalidCode", "WindowClosed",
       "NotOnRoster" >>

\* The rules a scan of `text` by the student of licence `lic` violates; the window
\* is closed when the build's own test of the instant fails.
Violated(text, lic) ==
    LET payload == JSON_parse(text)
        fields == { "action", "sessionId", "code", "expiresAt" }
        whole == text.wellFormed /\ \A f \in fields : Truthy(Prop(payload, f))
        action == Prop(payload, "action")
    IN IF ~whole THEN { "MalformedPayload" }
       ELSE (IF payload.sessionId # activeSession.id THEN { "WrongSession" } ELSE {})
            \cup (IF action \notin { "checkin", "checkout" } THEN { "UnknownAction" } ELSE {})
            \cup (IF action \in { "checkin", "checkout" }
                     /\ payload.code # CodeFor(activeSession, action)
                  THEN { "InvalidCode" } ELSE {})
            \cup (IF isExpired(payload.expiresAt)
                     \/ (IsDb /\ WindowCheck(action, now, activeSession) # "")
                  THEN { "WindowClosed" } ELSE {})
            \cup (IF IsLocal /\ ~rosterContains(lic) THEN { "NotOnRoster" } ELSE {})

\* The first rule of the order that is among `rules`.
FirstRule(rules) ==
    RuleOrder[CHOOSE i \in 1..Len(RuleOrder) :
                 /\ RuleOrder[i] \in rules
                 /\ \A j \in 1..(i - 1) : RuleOrder[j] \notin rules]

\* C14: a scan that violates several rules at once is answered with the message
\* of the first rule violated in the order malformed payload, wrong session,
\* unknown action, invalid code, window closed, not on roster (builds "db" and
\* "local").
C14_RuleOrder ==
    /\ (IsDb /\ CanSubmit) =>
          \A lic \in ValidLicenseInputs, text \in ScanTexts :
              Cardinality(Violated(text, lic)) >= 2 =>
                  RuleOf(submitScanCheck(undefined, lic, text)) = FirstRule(Violated(text, lic))
    /\ (IsLocal /\ HasActiveSession /\ authed) =>
          \A lic \in ValidLicenseInputsLocal, text \in ScanTexts :
              Cardinality(Violated(text, lic)) >= 2 =>
                  RuleOf(OutcomeLocal("scan", undefined, lic, text))
                      = FirstRule(Violated(text, lic))

\* The scanned texts that are no JSON or lack one of the four members.
MalformedTexts ==
    { text \in ScanTexts :
        \/ ~text.wellFormed
        \/ \E f \in { "action", "sessionId", "code", "expiresAt" } :
              f \notin DOMAIN JSON_parse(text) }

\* C15: a scan whose text is no JSON, or lacks one of the members action,
\* sessionId, code, expiresAt, is refused as malformed ("Invalid QR data..." or
\* "Invalid QR format.") and nothing is written; a text without sessionId is
\* not taken for one of the active session (builds "db" and "local").
C15_Malformed ==
    /\ (IsDb /\ CanSubmit) =>
          \A lic \in ValidLicenseInputs, text \in MalformedTexts :
              RuleOf(submitScanCheck(undefined, lic, text)) = "MalformedPayload"
    /\ (IsLocal /\ HasActiveSession /\ authed) =>
          \A lic \in { v \in ValidLicenseInputsLocal : rosterContains(v) },
             text \in MalformedTexts :
              /\ RuleOf(OutcomeLocal("scan", undefined, lic, text)) = "MalformedPayload"
              /\ AttendanceOf("scan", undefined, lic, text) = attendance

\* The scanned texts that have the four members and name the active session, but
\* an action that is neither "checkin" nor "checkout".
UnknownActionTexts ==
    { text \in ScanTexts \ MalformedTexts :
        /\ JSON_parse(text).sessionId = activeSession.id
        /\ JSON_parse(text).action \notin { "checkin", "checkout" } }

\* C16: a scan whose action is neither "checkin" nor "checkout" ends with the
\* message of an unknown action, not without a message, and no attendance
\* record is written or created (builds "db" and "local").
C16_UnknownAction ==
    /\ (IsDb /\ CanSubmit) =>
          \A lic \in ValidLicenseInputs, text \in UnknownActionTexts :
              RuleOf(submitScanCheck(undefined, lic, text)) = "UnknownAction"
    /\ (IsLocal /\ HasActiveSession /\ authed) =>
          \A lic \in { v \in ValidLicenseInputsLocal : rosterContains(v) },
             text \in UnknownActionTexts :
              /\ OutcomeLocal("scan", undefined, lic, text) = MsgUnknownAction
              /\ AttendanceOf("scan", undefined, lic, text) = attendance

\* C17: every stored session ends strictly after it starts, in every build: a
\* request to create a session whose end is not after its start stores nothing.
\* (The first session of the roster build stands for a row that was in the table
\* before the page loaded; it carries no instants and is not constrained.)
C17_EndAfterStart ==
    /\ (IsDb \/ IsLocal) =>
         \A i \in 1..Len(sessions) :
             getTime(sessions[i].endsAt) > getTime(sessions[i].startsAt)
    /\ IsDb =>
         \A t \in Titles, st \in StartLocals, en \in EndLocals :
             ~(centralLocalToMs(en) > centralLocalToMs(st))
                 => createSessionCheck(t, st, en) # ""
    /\ IsRoster =>
         \A i \in 1..Len(sessions) :
             "ends_at" \in DOMAIN sessions[i]
                 => getTime(sessions[i].ends_at) > getTime(sessions[i].starts_at)
    /\ IsPatch =>
         \A i \in 1..Len(sessions) :
             centralLocalToMs(sessions[i].end_at) > centralLocalToMs(sessions[i].start_at)

\* C18: the expiry instants stored with a session at creation are the closing
\* instants of the two windows, startsAt + 30 min and endsAt + 60 min, and each
\* window opens (startsAt - 30 min, endsAt - 60 min) strictly before it closes.
C18_StoredExpiries ==
    /\ IsDb =>
         \A i \in 1..Len(sessions) :
             LET s == sessions[i]
             IN /\ getTime(s.checkinExpiresAt) = getTime(s.startsAt) + 30 * MinuteMs
                /\ getTime(s.checkoutExpiresAt) = getTime(s.endsAt) + 60 * MinuteMs
                /\ getTime(s.startsAt) - 30 * MinuteMs < getTime(s.checkinExpiresAt)
                /\ getTime(s.endsAt) - 60 * MinuteMs < getTime(s.checkoutExpiresAt)
    /\ IsPortal =>
         \A i \in 1..Len(sessions) :
             LET s == sessions[i]
             IN /\ getTime(s.checkin_expires_at) = getTime(s.starts_at) + 30 * MinuteMs
                /\ getTime(s.checkout_expires_at) = getTime(s.ends_at) + 60 * MinuteMs
                /\ getTime(s.starts_at) - 30 * MinuteMs < getTime(s.checkin_expires_at)
                /\ getTime(s.ends_at) - 60 * MinuteMs < getTime(s.checkout_expires_at)

\* The instant a scanned text gives as its expiry, NaN when it gives none.
ExpiryOf(q) == getTime(Prop(JSON_parse(q), "expiresAt"))

\* The scanned texts that name an instant as their expiry.
DatedTexts == { q \in ScanTexts : q.wellFormed /\ ExpiryOf(q) # NaN }

\* The members of a scanned text other than its expiry are in order: it names the
\* active session, an action and a code.
WellAddressed(q) ==
    LET payload == JSON_parse(q)
    IN /\ Prop(payload, "sessionId") = activeSession.id
       /\ Truthy(Prop(payload, "action"))
       /\ Truthy(Prop(payload, "code"))

\* C19: a scanned payload is refused once the clock is past its expiresAt, with
\* "That code has expired for today." when no earlier check refuses it, and is
\* never refused as expired while now <= expiresAt (builds "db" and "local").
C19_Expiry ==
    /\ (IsDb /\ CanSubmit) =>
         \A lic \in ValidLicenseInputs, q \in DatedTexts :
             LET msg == submitScanCheck(undefined, lic, q)
                 action == Prop(JSON_parse(q), "action")
             IN /\ now > ExpiryOf(q) => msg # ""
                /\ (now > ExpiryOf(q) /\ WellAddressed(q)
                       /\ WindowCheck(action, now, activeSession) = "") => msg = MsgExpired
                /\ now <= ExpiryOf(q) => msg # MsgExpired
    /\ (IsLocal /\ HasActiveSession /\ authed) =>
         \A lic \in ValidLicenseInputsLocal, q \in DatedTexts :
             LET msg == submitScanLocalCheck("scan", undefined, lic, q)
             IN /\ now > ExpiryOf(q) => msg # ""
                /\ (now > ExpiryOf(q) /\ WellAddressed(q) /\ rosterContains(lic))
                       => msg = MsgExpired
                /\ now <= ExpiryOf(q) => msg # MsgExpired

\* At the very instant the code on display expires it is still accepted, while a
\* text that expired earlier is refused as expired.
C19_Witness ==
    /\ \/ /\ IsDb
          /\ CanSubmit
          /\ \E lic \in ValidLicenseInputs, q \in DatedTexts, p \in DatedTexts :
                /\ now = ExpiryOf(q)
                /\ submitScanCheck(undefined, lic, q) = ""
                /\ now > ExpiryOf(p)
                /\ submitScanCheck(undefined, lic, p) = MsgExpired
       \/ /\ IsLocal
          /\ HasActiveSession
          /\ authed
          /\ \E lic \in ValidLicenseInputsLocal, q \in DatedTexts, p \in DatedTexts :
                /\ now = ExpiryOf(q)
                /\ submitScanLocalCheck("scan", undefined, lic, q) = ""
                /\ now > ExpiryOf(p)
                /\ submitScanLocalCheck("scan", undefined, lic, p) = MsgExpired

\* The rows of a table for one student of one session.
RowsAt(table, sessionId, lic) ==
    { x \in table : x.session_id = sessionId /\ x.trec_license = lic }

CheckedOutRow(x) == Truthy(x.checkin_at) /\ Truthy(x.checkout_at)
CheckedInRow(x) == Truthy(x.checkin_at) /\ ~Truthy(x.checkout_at)
NotCheckedInRow(x) == ~Truthy(x.checkin_at) /\ ~Truthy(x.checkout_at)

\* From table `old` to table `new` the rows of (sessionId, lic) have lost the
\* value of column col and nothing else has changed.
ClearedOnly(old, new, sessionId, lic, col) ==
    /\ RowsAt(new, sessionId, lic) =
          { [x EXCEPT ![col] = null] : x \in RowsAt(old, sessionId, lic) }
    /\ new \ RowsAt(new, sessionId, lic) = old \ RowsAt(old, sessionId, lic)

\* C20: an admin's undo of a check-out on a record that is checked out clears
\* checkout_at and nothing else, leaving the record checked in with its checkin_at;
\* an admin's undo of a check-in on a record that is checked in (and not out)
\* clears checkin_at and nothing else, leaving it not checked in.  The update has
\* no condition on the record (builds "roster" and "patch").
C20_UndoOneStepBack ==
    [][ \A r \in roster :
          LET sid == activeSessionId
              lic == IF IsPatch THEN normalizeLicensePatch(r.trec_license)
                     ELSE r.trec_license
              old == RowsAt(gg_roster, sid, lic)
              new == RowsAt(gg_roster', sid, lic)
          IN /\ ((undoCheckOut(r) \/ patchUndoCheckOut(r))
                    /\ old # {} /\ \A x \in old : CheckedOutRow(x))
                   => /\ ClearedOnly(gg_roster, gg_roster', sid, lic, "checkout_at")
                      /\ \A y \in new : CheckedInRow(y)
             /\ ((undoCheckIn(r) \/ patchUndoCheckIn(r))
                    /\ old # {} /\ \A x \in old : CheckedInRow(x))
                   => /\ ClearedOnly(gg_roster, gg_roster', sid, lic, "checkin_at")
                      /\ \A y \in new : NotCheckedInRow(y)
      ]_vars

\* A record of the roster build that is marked present and has neither timestamp,
\* on the table and on the admin's copy: a check-in that the admin has undone.
C20_Witness ==
    /\ IsRoster
    /\ isAdmin
    /\ \E x \in gg_roster :
          /\ x \in roster
          /\ x.session_id = activeSessionId
          /\ x.status = "present"
          /\ NotCheckedInRow(x)

\* C21: a session is never changed after it has been created: at every step (a
\* scan, a manual action, an undo, a roster load, the creation of another session,
\* a tick of the clock) every session on the list is still on the list with the
\* same id, instants, codes and expiry instants.
C21_SessionsImmutable ==
    [][ \A i \in 1..Len(sessions) :
            \E j \in 1..Len(sessions') : sessions'[j] = sessions[i] ]_vars

\* The first session of the local build is still on the list, after a second one
\* has been created and a check-in has been recorded.
C21_Witness ==
    /\ IsLocal
    /\ Len(sessions) = 2
    /\ sessions[2].id = SessionId(1)
    /\ sessions[2].startsAt = toISOString(HM(9, 25))
    /\ sessions[2].endsAt = toISOString(HM(12, 25))
    /\ sessions[2].checkinExpiresAt = toISOString(HM(10, 55))
    /\ sessions[2].checkoutExpiresAt = toISOString(HM(12, 35))
    /\ sessions[2].checkinCode = randCode(1, "checkin")
    /\ sessions[2].checkoutCode = randCode(1, "checkout")
    /\ \E k \in 1..Len(attendance) : Truthy(Prop(attendance[k], "checkin_at"))

\* The four members of the QR payload of the wire format.
WireKeys == { "action", "sessionId", "code", "expiresAt" }

\* Parsing `text` yields exactly the four members with the given values.
ReadsBack(text, action, sessionId, code, expiresAt) ==
    /\ text.wellFormed
    /\ DOMAIN JSON_parse(text) = WireKeys
    /\ Prop(JSON_parse(text), "action") = action
    /\ Prop(JSON_parse(text), "sessionId") = sessionId
    /\ Prop(JSON_parse(text), "code") = code
    /\ Prop(JSON_parse(text), "expiresAt") = expiresAt

\* The QR payloads of builds "db" and "local" are read back field for field.
C22_RoundTripQrPayload ==
    (IsDb \/ IsLocal) =>
        \A i \in 1..Len(sessions) :
            LET s == sessions[i]
            IN /\ ReadsBack(qrPayload("checkin", s.id, s.checkinCode, s.checkinExpiresAt),
                            "checkin", s.id, s.checkinCode, s.checkinExpiresAt)
               /\ ReadsBack(qrPayload("checkout", s.id, s.checkoutCode, s.checkoutExpiresAt),
                            "checkout", s.id, s.checkoutCode, s.checkoutExpiresAt)

\* C22: the text of every QR code on display parses to exactly the four members
\* action, sessionId, code and expiresAt with the values it was made from: the
\* payloads of qrPayload (builds "db" and "local") and the data URIs checkinQrUrl
\* and checkoutQrUrl of build "roster", as handleScan reads them.
C22_RoundTrip ==
    /\ C22_RoundTripQrPayload
    /\ (IsRoster /\ Truthy(activeSessionId)) =>
          \A a \in { "checkin", "checkout" } :
              LET p == JSON_parse(PayloadText(RosterQr(activeSessionId, a)))
              IN /\ PayloadText(RosterQr(activeSessionId, a)).wellFormed
                 /\ DOMAIN p = WireKeys
                 /\ Prop(p, "action") = a
                 /\ Prop(p, "sessionId") = activeSessionId

\* One licence number written three ways, which differ in letter case and in
\* whitespace only.
LicenseSpellings ==
    { <<"1", "2", "3", "4", "5", "6", "-", "S", "A">>,
      <<" ", "1", "2", "3", "4", "5", "6", "-", "s", "a">>,
      <<"1", "2", "3", "4", "5", "6", " ", "-", "S", "a", " ">> }

\* The two spellings address one record in builds "db" and "local".
C23_SameRecord(a, b) ==
    /\ normalizeLicense(a) = normalizeLicense(b)
    /\ (IsDb /\ HasActiveSession) =>
          (HasRow(gg_attendance, activeSession.id, normalizeLicense(a))
              <=> HasRow(gg_attendance, activeSession.id, normalizeLicense(b)))
    /\ (IsLocal /\ HasActiveSession) =>
          /\ upsertAttendance(activeSession.id, a).idx = upsertAttendance(activeSession.id, b).idx
          /\ upsertAttendance(activeSession.id, a).rec = upsertAttendance(activeSession.id, b).rec

\* Builds "db" and "local" key the record by the normalized licence.
C23_KeyDbLocal ==
    \A a \in LicenseSpellings, b \in LicenseSpellings :
        /\ normalizeLicense(normalizeLicense(a)) = normalizeLicense(a)
        /\ C23_SameRecord(a, b)

\* C23: submissions whose identifiers differ only in letter case or whitespace
\* address the same (session, student) record, and normalizing a normalized
\* identifier changes nothing: in builds "db" and "local", and in build "roster",
\* where a check-in under one spelling followed by a check-out under another
\* leaves one row for the student, holding both timestamps.
C23_NormalizedKey ==
    /\ C23_KeyDbLocal
    /\ \A a \in LicenseSpellings :
          normalizeLicenseRoster(normalizeLicenseRoster(a)) = normalizeLicenseRoster(a)
    /\ (IsRoster /\ Truthy(activeSessionId)) =>
          \A a \in LicenseSpellings, b \in LicenseSpellings :
              LET sid == activeSessionId
                  t1 == RosterAfterScan(gg_roster, sid, "checkin",
                                        normalizeLicenseRoster(a), isoNow)
                  t2 == RosterAfterScan(t1, sid, "checkout",
                                        normalizeLicenseRoster(b), isoNow)
              IN /\ RowsAt(t2, sid, normalizeLicenseRoster(a))
                       = RowsAt(t2, sid, normalizeLicenseRoster(b))
                 /\ \A x \in RowsAt(t2, sid, normalizeLicenseRoster(a)) : CheckedOutRow(x)

\* handleScan of build "roster" ends with "Success" (lines 2099-2137).
RosterScanSucceeds(raw) ==
    authed /\ Recognized(raw) /\ normalizeLicenseRoster(MetaLicense) # <<>>

\* C24: whenever a scan ends with the success message, the table holds a row of
\* that (session, student) with the timestamp of the scanned action set to the
\* instant of the scan: handleScan of build "roster" and handleScanPayload of
\* build "patch".
C24_SuccessIsPersisted ==
    /\ IsRoster =>
         \A raw \in RosterScans :
             RosterScanSucceeds(raw) =>
                 LET payload == JSON_parse(PayloadText(raw))
                     lic == normalizeLicenseRoster(MetaLicense)
                     after == RosterAfterScan(gg_roster, payload.session_id,
                                              payload.action, lic, isoNow)
                 IN \E x \in RowsAt(after, payload.session_id, lic) :
                        IF payload.action = "checkin" THEN x.checkin_at = isoNow
                        ELSE x.checkout_at = isoNow
    /\ IsPatch =>
         \A p \in PatchPayloads, m \in { "checkin", "checkout" }, l \in PatchLicenses :
             ScanToast(p, m, l) \in { ToastCheckedIn, ToastCheckedOut } =>
                 LET parsed == ParsedPayload(p, m)
                     lic == normalizeLicensePatch(l)
                     after == RosterAfterPayload(p, m, l)
                 IN \E x \in RowsAt(after, parsed.sessionId, lic) :
                        IF parsed.mode = "checkin" THEN x.checkin_at = isoNow
                        ELSE x.checkout_at = isoNow

\* C25: the write of an accepted check-out changes checkout_at and method_checkout
\* of the record of its (session, student) and nothing else: every other column
\* of that record and every other record are after the write what they were in
\* the table just before it, whatever was written since the submission read the
\* record (build "db", two clients).
C25_CheckoutFrame ==
    [][ \A c \in CallIds :
          (calls[c].pc = "upsert" /\ calls[c].action = "checkout" /\ upsertReturns(c)) =>
              LET sid == calls[c].session_id
                  lic == calls[c].trec_license
              IN /\ HasRow(gg_attendance, sid, lic)
                 /\ HasRow(gg_attendance', sid, lic)
                 /\ \A col \in Columns \ { "checkout_at", "method_checkout" } :
                        RowOf(gg_attendance', sid, lic)[col] = RowOf(gg_attendance, sid, lic)[col]
                 /\ gg_attendance' \ { RowOf(gg_attendance', sid, lic) }
                       = gg_attendance \ { RowOf(gg_attendance, sid, lic) }
      ]_vars

\* checkin_at is not later than checkout_at when the record has both.
InOrder(rec) ==
    (Truthy(Prop(rec, "checkin_at")) /\ Truthy(Prop(rec, "checkout_at")))
        => getTime(rec.checkin_at) <= getTime(rec.checkout_at)

\* C26: in every reachable state of every build, a record that has both
\* timestamps has its check-in not later than its check-out.
C26_CheckinBeforeCheckout ==
    /\ IsDb => \A r \in gg_attendance : InOrder(r)
    /\ IsLocal => \A k \in 1..Len(attendance) : InOrder(attendance[k])
    /\ (IsRoster \/ IsPatch) => \A r \in gg_roster : InOrder(r)

\* C27: in build "local", whose sessions store the expiry of their codes, no scan
\* is recorded as a check-in after the active session's checkinExpiresAt, nor as
\* a check-out after its checkoutExpiresAt, whatever the scanned text gives as
\* its expiresAt.
C27_StoredExpiryBinds ==
    (IsLocal /\ HasActiveSession) =>
        \A lic \in LicenseInputs, q \in ScanTexts :
            /\ now > getTime(activeSession.checkinExpiresAt)
                  => OutcomeLocal("scan", undefined, lic, q) # MsgCheckedIn
            /\ now > getTime(activeSession.checkoutExpiresAt)
                  => OutcomeLocal("scan", undefined, lic, q) # MsgCheckedOut

\* The handlers of decoded frames that are suspended at a request.
InFlight == { c \in CallIds : calls[c].pc \in { "upsert", "update" } }

\* C28: at most one scan handler of the client is under way at any time, and in
\* build "roster" none is started during the lockout that follows one: of the
\* handlers started by the camera loops of builds "roster" and "patch", at most
\* one is suspended at a request or waiting for its lockout to end.
C28_OneHandlerInFlight ==
    /\ IsRoster => Cardinality({ c \in CallIds : calls[c] # Idle }) <= 1
    /\ IsPatch => Cardinality(InFlight) <= 1

\* The detection loop is alive: its timer is pending.
Polling == scanTimer.pending

\* C29: once startScan has the camera stream, the loop keeps polling until a code
\* is captured or the scan is stopped: while the scan is on and nothing has been
\* captured the timer is pending, and with a QR code in view the scan ends with
\* the code captured or with stopScan (build "portal", the timer being fair).
C29_PollsUntilCaptured ==
    /\ []((IsPortal /\ streamRef = "stream" /\ scanning /\ qrValue = "") => Polling)
    /\ ((IsPortal /\ streamRef = "stream" /\ scanning /\ qrInView)
           ~> (qrValue # "" \/ ~scanning))

-----------------------------------------------------------------------------
(* All the builds, one client each.                                        *)

Init == InitDb \/ InitLocal \/ InitRoster \/ InitPatch \/ InitPortal

Next == Tick \/ NextDb({ 1 }) \/ NextLocal \/ NextRoster \/ NextPatch \/ NextPortal

Spec == Init /\ [][Next]_vars

=============================================================================
